---- MODULE Spec2Model ----
(***************************************************************************)
(* Smart-hostel: leave application, warden decision, gate logging and the  *)
(* rule-based risk scoring (StatsService, CalendarService,                 *)
(* MLPredictionService).                                                   *)
(*                                                                         *)
(* Numbers: JavaScript doubles are modelled by exact rationals.  A weight  *)
(* 0.18 is the integer 18 (hundredths); a confidence 0.6 is the integer 60 *)
(* (hundredths); Math.round(n/d) is Round(n, d).                           *)
(* Time: one unit is half a day; Day(t) is the calendar day of instant t.  *)
(*                                                                         *)
(* Specifications: SpecRisk, SpecDecision and SpecPredict apply the pure   *)
(* services to inputs drawn in Init; Spec runs the leave, gate and refresh *)
(* requests, SpecStats the leave, attendance and statistics requests.      *)
(***************************************************************************)
EXTENDS Integers, Sequences, FiniteSets, TLC

VARIABLES
    leaves,      \* Leave collection: sequence of leave documents, index = _id
    attendance,  \* Attendance collection: set of [studentId, date, status, ...]
    stats,       \* StudentStats collection: [student -> document or NoDoc]
    events,      \* AcademicCalendar collection: set of event documents
    gateLogs,    \* GateLog collection: sequence of [leaveId, action]
    auditLogs,   \* AuditLog collection: sequence of [action, targetId]
    now,         \* the clock (half-days)
    resp,        \* the last request and its response
    call,        \* pure-function specifications: the function applied and its input
    ret          \* pure-function specifications: its result, or NoDoc

vars == <<leaves, attendance, stats, events, gateLogs, auditLogs, now, resp, call, ret>>

\* no document (findOne found nothing), and a pure function not yet applied
NoDoc == [null |-> TRUE]

\* null or undefined in a string-valued field
Null == "null"

-----------------------------------------------------------------------------
(* Arithmetic of the JavaScript built-ins *)

Max(a, b) == IF a >= b THEN a ELSE b
Min(a, b) == IF a <= b THEN a ELSE b

\* Math.round(n / d) for d > 0: nearest integer, a tie goes up
Round(n, d) == (2 * n + d) \div (2 * d)

\* Math.ceil(n / d) for d > 0
Ceil(n, d) == -((-n) \div d)

RECURSIVE Gcd(_, _)
Gcd(a, b) == IF b = 0 THEN a ELSE Gcd(b, a % b)

\* the double n / d as a rational in lowest terms
Ratio(n, d) == IF n = 0 THEN [num |-> 0, den |-> 1]
               ELSE [num |-> n \div Gcd(n, d), den |-> d \div Gcd(n, d)]

\* x || dflt for a number x: 0 is falsy
OrDefault(x, dflt) == IF x = 0 THEN dflt ELSE x

-----------------------------------------------------------------------------
(* MLPredictionService: configuration *)

\* WEIGHTS with the attendance weight 1.8 instead of 0.18
WEIGHTSAttendanceTenfold ==
    [attendance |-> 180, reliability |-> 15, violations |-> 12,
     frequency |-> 8, history |-> 7, calendarConflict |-> 15,
     examProximity |-> 10, duration |-> 5, leaveType |-> 5, timing |-> 5]

\* hundredths
WEIGHTS == [attendance |-> 18, reliability |-> 15, violations |-> 12,
            frequency |-> 8, history |-> 7, calendarConflict |-> 15,
            examProximity |-> 10, duration |-> 5, leaveType |-> 5, timing |-> 5]

\* THRESHOLDS with the auto-approval bound at 25 instead of 20
THRESHOLDSLoose == [autoApprove |-> 25, manualReview |-> 60, highRisk |-> 80,
                    minConfidence |-> 60]

\* minConfidence in hundredths
THRESHOLDS == [autoApprove |-> 20, manualReview |-> 60, highRisk |-> 80,
               minConfidence |-> 60]

\* score >= 60 HIGH, >= 30 MEDIUM, else LOW
Category(score) == IF score >= 60 THEN "HIGH"
                   ELSE IF score >= 30 THEN "MEDIUM" ELSE "LOW"

\* a clamp that forgets the upper bound
ClampLower(x) == Max(0, x)

\* Math.max(0, Math.min(100, x))
Clamp(x) == Max(0, Min(100, x))

-----------------------------------------------------------------------------
(* MLPredictionService.calculateRiskScore *)

leaveTypeRiskOf(request) ==
    IF request.leaveType = "OTHER" THEN 40
    ELSE IF request.isMedical THEN 5
    ELSE IF request.isEmergency THEN 10
    ELSE 30

timingRiskOf(request) ==
    LET a == IF request.isWeekend THEN 30 - 20 ELSE 30
        b == IF request.daysUntilLeave < 1 THEN a + 30
             ELSE IF request.daysUntilLeave >= 3 THEN a - 10 ELSE a
    IN  Max(0, Min(100, b))

\* the nine component risks; history is the rational rejected / applied * 100
componentRisks(features) ==
    [attendance  |-> Max(0, 100 - features.student.attendancePercentage),
     reliability |-> Max(0, 100 - features.student.returnReliabilityScore),
     violations  |-> Min(100, features.student.curfewViolations * 20),
     frequency   |-> Min(100, features.student.leavesThisMonth * 25),
     history     |-> IF features.student.totalLeavesApplied > 0
                     THEN Ratio(features.student.totalLeavesRejected * 100,
                                features.student.totalLeavesApplied)
                     ELSE Ratio(0, 1),
     calendarConflict |-> features.calendar.calendarScore,
     duration    |-> Min(100, (features.request.durationDays - 1) * 10),
     leaveType   |-> leaveTypeRiskOf(features.request),
     timing      |-> timingRiskOf(features.request)]

\* the weighted sum before the modifier, as numerator over (100 * history.den)
weightedSum(c) ==
    [num |-> c.history.den * ( c.attendance * WEIGHTS.attendance
                             + c.reliability * WEIGHTS.reliability
                             + c.violations * WEIGHTS.violations
                             + c.frequency * WEIGHTS.frequency
                             + c.calendarConflict * WEIGHTS.calendarConflict
                             + c.duration * WEIGHTS.duration
                             + c.leaveType * WEIGHTS.leaveType
                             + c.timing * WEIGHTS.timing )
              + c.history.num * WEIGHTS.history,
     den |-> 100 * c.history.den]

\* The sum is exact here; the double sum of the source can fall an ulp to
\* the other side of a tie k + 0.5, which moves the rounded score by one and
\* never out of the clamp.
calculateRiskScore(features) ==
    LET c     == componentRisks(features)
        w     == weightedSum(c)
        total == Clamp(Round(w.num + features.calendar.riskModifier * w.den, w.den))
    IN  [score |-> total, category |-> Category(total), componentScores |-> c]

-----------------------------------------------------------------------------
(* StatsService.calculateOverallRisk: the fields it writes, from the stored
   document *)

calculateOverallRisk(st) ==
    LET attendanceRisk  == Max(0, 100 - st.attendancePercentage)
        reliabilityRisk == Max(0, 100 - st.returnReliabilityScore)
        violationsRisk  == Min(100, st.curfewViolations * 15)
        frequencyRisk   == Min(100, st.leavesThisMonth * 20)
        historyRisk     == Min(100, st.lateReturns * 20)
        riskScore       == Round(attendanceRisk * 30 + reliabilityRisk * 25
                                 + violationsRisk * 20 + frequencyRisk * 15
                                 + historyRisk * 10, 100)
    IN  [overallRiskScore |-> riskScore,
         riskCategory     |-> Category(riskScore),
         componentScores  |-> [attendance |-> attendanceRisk,
                               reliability |-> reliabilityRisk,
                               violations |-> violationsRisk,
                               frequency |-> frequencyRisk,
                               history |-> historyRisk]]

(* StatsService.calculateLeaveRequestRisk: the combined score from the stored
   overallRiskScore and the calendar analysis *)

combinedRiskScore(overallRiskScore, calendarScore, riskModifier) ==
    Clamp(Round(OrDefault(overallRiskScore, 0) * 60 + calendarScore * 40
                + riskModifier * 100, 100))

-----------------------------------------------------------------------------
(* MLPredictionService.calculateConfidence: overall, in hundredths *)

\* data-availability score in tenths
dataScore(da) ==
      (IF da.hasAttendanceHistory THEN 3 ELSE 0)
    + (IF da.hasLeaveHistory THEN 3 ELSE 0)
    + (IF da.hasReturnHistory THEN 2 ELSE 0)
    + (IF da.daysOfHistory >= 30 THEN 2 ELSE 0)

\* the number of indicators that are true, of four
consistentTrue(student) ==
      (IF student.attendancePercentage >= 80 THEN 1 ELSE 0)
    + (IF student.returnReliabilityScore >= 80 THEN 1 ELSE 0)
    + (IF student.curfewViolations = 0 THEN 1 ELSE 0)
    + (IF student.leavesThisMonth <= 2 THEN 1 ELSE 0)

\* calendar clarity in hundredths
calendarClarity(calendar) ==
    IF calendar.blockedDates > 0 THEN 90
    ELSE IF Len(calendar.overlappingEvents) > 0 THEN 80 ELSE 100

\* request completeness in hundredths
requestScore(request) ==
    50 + (IF request.reasonLength > 10 THEN 25 ELSE 0)
       + (IF request.daysUntilLeave >= 1 THEN 25 ELSE 0)

\* With consistency 0.75 the exact sum is a tie k + 0.5; for these (data score,
\* calendar clarity, request score) the IEEE-754 sum is one ulp below the tie and
\* Math.round takes it down, for every other tie it goes up.
DoubleBelowTie ==
    { <<0, 100, 75>>, <<2, 90, 50>>, <<3, 80, 50>>, <<3, 100, 50>>,
      <<3, 100, 75>>, <<3, 100, 100>>, <<4, 100, 50>>, <<4, 100, 100>>,
      <<5, 100, 100>>, <<6, 80, 50>>, <<6, 80, 100>>, <<6, 90, 100>>,
      <<10, 80, 50>>, <<10, 100, 50>>, <<10, 100, 75>>, <<10, 100, 100>> }

calculateConfidence(features) ==
    LET d    == dataScore(features.dataAvailability)
        t    == consistentTrue(features.student)
        m    == Max(t, 4 - t)
        c    == calendarClarity(features.calendar)
        r    == requestScore(features.request)
        \* overall * 100 = 3 d + 30 m / 4 + c / 5 + r / 5, over the denominator 20
        num  == 60 * d + 150 * m + 4 * c + 4 * r
        low  == m = 3 /\ <<d, c, r>> \in DoubleBelowTie
    IN  [overall |-> IF low THEN Round(num, 20) - 1 ELSE Round(num, 20)]

-----------------------------------------------------------------------------
(* MLPredictionService.generateDecision *)

\* a veto test that never fires
isVetoedNever(features) == FALSE

\* if (!features.calendar.canApply)
isVetoed(features) == ~features.calendar.canApply

generateDecision(riskScore, confidence, features) ==
    IF isVetoed(features)
    THEN [action |-> "REJECT",
          reason |-> "Leave period overlaps with blocked dates",
          attentionPoints |-> features.calendar.warnings]
    ELSE
      LET base ==
            IF riskScore <= THRESHOLDS.autoApprove
               /\ confidence.overall >= THRESHOLDS.minConfidence
            THEN [action |-> "AUTO_APPROVE",
                  reason |-> "Low risk profile with high confidence",
                  attentionPoints |-> << >>]
            ELSE IF riskScore <= THRESHOLDS.autoApprove
            THEN [action |-> "MANUAL_REVIEW",
                  reason |-> "Low risk but insufficient data for auto-approval",
                  attentionPoints |-> << "Limited history available" >>]
            ELSE IF riskScore > THRESHOLDS.highRisk
            THEN [action |-> "FLAG",
                  reason |-> "High risk score - requires careful review",
                  attentionPoints |->
                      (IF features.student.attendancePercentage < 75
                       THEN << "Low attendance" >> ELSE << >>)
                   \o (IF features.student.lateReturns > 0
                       THEN << "late returns" >> ELSE << >>)
                   \o (IF features.student.curfewViolations > 0
                       THEN << "curfew violations" >> ELSE << >>)
                   \o (IF features.patterns.frequencyAnomaly
                       THEN << "high leave frequency" >> ELSE << >>)]
            ELSE IF riskScore > THRESHOLDS.manualReview
            THEN [action |-> "FLAG",
                  reason |-> "Moderate to high risk - needs review",
                  attentionPoints |-> << "Review student history before approval" >>]
            ELSE [action |-> "MANUAL_REVIEW",
                  reason |-> "Moderate risk - standard review process",
                  attentionPoints |-> << >>]
      IN  [base EXCEPT !.attentionPoints =
              @ \o features.calendar.warnings
                \o (IF features.patterns.consecutiveLeaves
                    THEN << "consecutive leave request" >> ELSE << >>)
                \o (IF features.patterns.hasRecentRejection
                    THEN << "Recent leave was rejected" >> ELSE << >>)]

-----------------------------------------------------------------------------
(* AcademicCalendar.getEventsInRange and CalendarService.analyzeLeaveDates *)

\* isActive and startDate <= to and endDate >= from
overlaps(event, from, to) ==
    event.isActive /\ event.startDate <= to /\ event.endDate >= from

\* sort({priority: -1, startDate: 1}): e may come before f
sortsBefore(e, f) ==
    \/ e.priority > f.priority
    \/ e.priority = f.priority /\ e.startDate <= f.startDate

\* the orders the query may return the set evs in (ties in either order)
getEventsInRange(evs, from, to) ==
    LET hit == { e \in evs : overlaps(e, from, to) }
        n   == Cardinality(hit)
    IN  { q \in [1..n -> hit] :
            /\ \A i, j \in 1..n : i < j => q[i] # q[j] /\ sortsBefore(q[i], q[j]) }

\* the filter of analyzeLeaveDates: a scope list excludes a student only when
\* the list is non-empty, the student's value is truthy, and the list lacks it
\* (an absent hostelBlock or course is "", an absent year is 0)
isRelevant(event, student) ==
    /\ ~(event.affectsHostels # {} /\ student.hostelBlock # ""
         /\ student.hostelBlock \notin event.affectsHostels)
    /\ ~(event.affectsCourses # {} /\ student.course # ""
         /\ student.course \notin event.affectsCourses)
    /\ ~(event.affectsYears # {} /\ student.year # 0
         /\ student.year \notin event.affectsYears)

SelectSeqRelevant(q, student) ==
    LET Test(e) == isRelevant(e, student) IN SelectSeq(q, Test)

analysisInit ==
    [canApply |-> TRUE, riskModifier |-> 0, warnings |-> << >>,
     blockedDates |-> << >>, flaggedDates |-> << >>,
     recommendation |-> "APPROVE", overlappingEvents |-> << >>,
     calendarScore |-> 0]

\* one iteration of the loop over relevantEvents
applyEvent(a, event) ==
    LET b == [a EXCEPT !.overlappingEvents = Append(@, event.title),
                       !.riskModifier = @ + event.riskModifier]
    IN  CASE event.leavePolicy = "BLOCKED" ->
               [b EXCEPT !.canApply = FALSE,
                         !.recommendation = "REJECT",
                         !.blockedDates = Append(@, event.title),
                         !.warnings = Append(@, <<"blocked", event.title>>),
                         !.calendarScore = 100]
          [] event.leavePolicy = "FLAGGED" ->
               [b EXCEPT !.recommendation = "FLAG",
                         !.flaggedDates = Append(@, event.title),
                         !.warnings = Append(@, <<"manual approval", event.title>>),
                         !.calendarScore = Max(@, 70)]
          [] event.leavePolicy = "DISCOURAGED" ->
               [b EXCEPT !.warnings = Append(@, <<"discouraged", event.title>>),
                         !.calendarScore = Max(@, 40)]
          [] event.leavePolicy = "ENCOURAGED" ->
               [b EXCEPT !.calendarScore = Min(@, 10)]
          [] OTHER -> b

RECURSIVE analyzeLoop(_, _)
analyzeLoop(a, q) ==
    IF q = << >> THEN a ELSE analyzeLoop(applyEvent(a, Head(q)), Tail(q))

\* analyzeLeaveDates on the query result q (a sequence of events)
analyzeLeaveDates(q, student) ==
    LET a == analyzeLoop(analysisInit, SelectSeqRelevant(q, student))
        b == [a EXCEPT !.riskModifier = Max(-50, Min(50, @))]
    IN  IF b.canApply /\ b.calendarScore <= 20
        THEN [b EXCEPT !.recommendation = "AUTO_APPROVE"]
        ELSE IF b.calendarScore > 50 /\ b.canApply
        THEN [b EXCEPT !.recommendation = "FLAG"]
        ELSE b

\* the calendar part of extractFeatures
calendarFeatures(analysis) ==
    [canApply |-> analysis.canApply,
     calendarScore |-> analysis.calendarScore,
     riskModifier |-> analysis.riskModifier,
     overlappingEvents |-> analysis.overlappingEvents,
     warnings |-> analysis.warnings,
     blockedDates |-> Len(analysis.blockedDates),
     recommendation |-> analysis.recommendation]

-----------------------------------------------------------------------------
(* Values shared by the specifications *)

LeaveTypes == {"REGULAR", "EMERGENCY", "MEDICAL", "OTHER"}

\* a count "however large"
MaxCount == 1000

\* no request answered yet
emptyResp == [op |-> "none", code |-> 0, leaveId |-> 0, decision |-> Null]

-----------------------------------------------------------------------------
(* SpecRisk: the three risk scores as functions of their inputs *)

requestOf(leaveType, durationDays, isWeekend, daysUntilLeave, reasonLength) ==
    [leaveType |-> leaveType, durationDays |-> durationDays,
     reasonLength |-> reasonLength,
     isEmergency |-> leaveType = "EMERGENCY", isMedical |-> leaveType = "MEDICAL",
     isWeekend |-> isWeekend, daysUntilLeave |-> daysUntilLeave]

RiskScoreInputs ==
    { [fn |-> "calculateRiskScore",
       features |->
         [student |-> [attendancePercentage |-> a, returnReliabilityScore |-> r,
                       curfewViolations |-> v, leavesThisMonth |-> m,
                       totalLeavesApplied |-> h[1], totalLeavesRejected |-> h[2]],
          calendar |-> [calendarScore |-> c, riskModifier |-> k],
          request |-> requestOf(t, d, w, u, 0)]] :
        a \in {0, 60, 100}, r \in {0, 100}, v \in {0, MaxCount},
        m \in {0, MaxCount}, h \in {<<0, 0>>, <<3, 1>>, <<2, 2>>},
        c \in {0, 70, 100}, k \in {-50, 0, 50}, t \in LeaveTypes,
        d \in {1, 2, MaxCount}, w \in BOOLEAN, u \in {0, 1, 3} }

OverallRiskInputs ==
    { [fn |-> "calculateOverallRisk",
       stats |-> [attendancePercentage |-> a, returnReliabilityScore |-> r,
                  curfewViolations |-> v, leavesThisMonth |-> m,
                  lateReturns |-> l]] :
        a \in {0, 50, 100}, r \in {0, 67, 100}, v \in {0, 3, MaxCount},
        m \in {0, 2, MaxCount}, l \in {0, 1, MaxCount} }

LeaveRequestRiskInputs ==
    { [fn |-> "calculateLeaveRequestRisk", overallRiskScore |-> b,
       calendarScore |-> c, riskModifier |-> k] :
        b \in {0, 20, 50, 100}, c \in {0, 10, 40, 70, 100},
        k \in {-50, -20, 0, 30, 50} }

PureInit ==
    /\ leaves = << >> /\ attendance = << >> /\ stats = << >> /\ events = {}
    /\ gateLogs = << >> /\ auditLogs = << >> /\ now = 0 /\ resp = emptyResp
    /\ ret = NoDoc

PureFrame == UNCHANGED <<leaves, attendance, stats, events, gateLogs, auditLogs,
                         now, resp, call>>

InitRisk ==
    /\ PureInit
    /\ call \in RiskScoreInputs \cup OverallRiskInputs \cup LeaveRequestRiskInputs

RiskScoreStep ==
    /\ call.fn = "calculateRiskScore" /\ ret = NoDoc
    /\ ret' = calculateRiskScore(call.features)
    /\ PureFrame

OverallRiskStep ==
    /\ call.fn = "calculateOverallRisk" /\ ret = NoDoc
    /\ ret' = calculateOverallRisk(call.stats)
    /\ PureFrame

LeaveRequestRiskStep ==
    /\ call.fn = "calculateLeaveRequestRisk" /\ ret = NoDoc
    /\ ret' = [riskScore |-> combinedRiskScore(call.overallRiskScore,
                                               call.calendarScore, call.riskModifier)]
    /\ PureFrame

NextRisk == RiskScoreStep \/ OverallRiskStep \/ LeaveRequestRiskStep

SpecRisk == InitRisk /\ [][NextRisk]_vars

\* C1: every risk score produced is an integer in [0,100]: the score of
\* calculateRiskScore, the overallRiskScore of calculateOverallRisk and the
\* combined score of calculateLeaveRequestRisk, whatever the magnitudes of the
\* inputs.
RiskScoreInRange ==
    ret # NoDoc =>
        /\ call.fn = "calculateRiskScore" => ret.score \in 0..100
        /\ call.fn = "calculateOverallRisk" => ret.overallRiskScore \in 0..100
        /\ call.fn = "calculateLeaveRequestRisk" => ret.riskScore \in 0..100

\* calculateRiskScore has clamped a sum above 100 for a student with 1000
\* curfew violations
RiskScoreClampedWitness ==
    /\ ret # NoDoc /\ call.fn = "calculateRiskScore"
    /\ call.features.student.curfewViolations = MaxCount
    /\ call.features.calendar.riskModifier = 50
    /\ call.features.student.attendancePercentage = 0
    /\ ret.score = 100

-----------------------------------------------------------------------------
(* SpecDecision: generateDecision over every score, confidence and veto *)

\* a feature bundle with the given veto and nothing else to report
vetoFeatures(canApply) ==
    [student |-> [attendancePercentage |-> 100, lateReturns |-> 0,
                  curfewViolations |-> 0],
     calendar |-> [canApply |-> canApply, warnings |-> << >>],
     patterns |-> [frequencyAnomaly |-> FALSE, consecutiveLeaves |-> FALSE,
                   hasRecentRejection |-> FALSE]]

InitDecision ==
    /\ PureInit
    /\ call \in { [fn |-> "generateDecision", riskScore |-> s, confidence |-> c,
                   canApply |-> b] : s \in 0..100, c \in 0..100, b \in BOOLEAN }

DecisionStep ==
    /\ call.fn = "generateDecision" /\ ret = NoDoc
    /\ ret' = generateDecision(call.riskScore, [overall |-> call.confidence],
                               vetoFeatures(call.canApply))
    /\ PureFrame

NextDecision == DecisionStep

SpecDecision == InitDecision /\ [][NextDecision]_vars

-----------------------------------------------------------------------------
(* Time *)

\* the calendar day of instant t (setHours(0, 0, 0, 0)); two instants a day
Day(t) == t \div 2

\* Math.ceil(dt / (1000 * 60 * 60 * 24)) for a difference dt of instants
CeilDays(dt) == Ceil(dt, 2)

\* Date.getDay() of instant t: day 0 of the model is a Thursday
getDay(t) == (Day(t) + 4) % 7

\* new Date(year, month, 1) for the month of instant t: day 1 of the model is
\* the first day of a month, day 0 the last day of the month before
thisMonthStart(t) == IF Day(t) >= 1 THEN 2 ELSE -60

-----------------------------------------------------------------------------
(* MLPredictionService.extractFeatures and predictLeaveApproval *)

\* recentLeaves[0]: the student's leaves come sorted by createdAt descending;
\* ls is in creation order, so the last one is the first of the query
checkConsecutiveLeaves(recentLeaves, newFromDate) ==
    IF Len(recentLeaves) = 0 THEN FALSE
    ELSE CeilDays(newFromDate - recentLeaves[Len(recentLeaves)].toDateTime) <= 3

\* st: the StudentStats document; analysis: the result of analyzeLeaveDates;
\* request: [leaveType, fromDate, toDate, reasonLength]; studentLeaves: the
\* student's Leave documents in creation order; t: the time of the request
extractFeatures(st, analysis, request, studentLeaves, t) ==
    LET recent(l) == l.createdAt >= t - 60
        recentLeaves == SelectSeq(studentLeaves, recent)
    IN  [student |->
            [attendancePercentage   |-> OrDefault(st.attendancePercentage, 100),
             returnReliabilityScore |-> OrDefault(st.returnReliabilityScore, 100),
             curfewViolations       |-> st.curfewViolations,
             lateReturns            |-> st.lateReturns,
             totalLeavesApplied     |-> st.totalLeavesApplied,
             totalLeavesApproved    |-> st.totalLeavesApproved,
             totalLeavesRejected    |-> st.totalLeavesRejected,
             leavesThisMonth        |-> st.leavesThisMonth],
         calendar |-> calendarFeatures(analysis),
         request |->
            requestOf(request.leaveType,
                      CeilDays(request.toDate - request.fromDate) + 1,
                      getDay(request.fromDate) \in {5, 6},
                      CeilDays(request.fromDate - t),
                      request.reasonLength),
         patterns |->
            [recentLeavesCount  |-> Len(recentLeaves),
             hasRecentRejection |->
                 \E i \in 1..Len(recentLeaves) : recentLeaves[i].status = "REJECTED",
             consecutiveLeaves  |->
                 checkConsecutiveLeaves(recentLeaves, request.fromDate),
             frequencyAnomaly   |-> st.leavesThisMonth > 3],
         dataAvailability |->
            [hasAttendanceHistory |-> st.totalDays > 0,
             hasLeaveHistory      |-> st.totalLeavesApplied > 0,
             hasReturnHistory     |-> st.onTimeReturns + st.lateReturns > 0,
             daysOfHistory        |-> st.totalDays]]

\* q: the events the calendar query returned, in its order
predictLeaveApproval(st, q, studentInfo, request, studentLeaves, t) ==
    LET features == extractFeatures(st, analyzeLeaveDates(q, studentInfo), request,
                                    studentLeaves, t)
        riskAssessment == calculateRiskScore(features)
        confidence == calculateConfidence(features)
        decision == generateDecision(riskAssessment.score, confidence, features)
    IN  [prediction |-> [decision     |-> decision.action,
                         confidence   |-> confidence.overall,
                         riskScore    |-> riskAssessment.score,
                         riskCategory |-> riskAssessment.category],
         features |-> features,
         featureScores |-> riskAssessment.componentScores,
         recommendation |-> [action |-> decision.action,
                             reason |-> decision.reason,
                             attentionPoints |-> decision.attentionPoints]]

-----------------------------------------------------------------------------
(* StatsService *)

\* StudentStats.create({ studentId }): the schema defaults (lastUpdated, a
\* timestamp, is left out of the document)
defaultStats ==
    [totalDays |-> 0, presentDays |-> 0, absentDays |-> 0, lateDays |-> 0,
     attendancePercentage |-> 100,
     totalLeavesApplied |-> 0, totalLeavesApproved |-> 0,
     totalLeavesRejected |-> 0, totalLeavesAutoApproved |-> 0,
     totalLeavesFlagged |-> 0, totalLeaveDaysTaken |-> 0,
     onTimeReturns |-> 0, lateReturns |-> 0, returnReliabilityScore |-> 100,
     curfewViolations |-> 0,
     avgLeaveDuration |-> 0, avgLeaveFrequency |-> 0,
     \* lastLeaveDate: -1 is null
     frequentLeaveType |-> Null, lastLeaveDate |-> -1,
     leavesThisMonth |-> 0, leavesThisSemester |-> 0,
     overallRiskScore |-> 0, riskCategory |-> "LOW",
     componentScores |-> [attendance |-> 0, reliability |-> 0, violations |-> 0,
                          frequency |-> 0, history |-> 0]]

initializeStats(doc) == IF doc = NoDoc THEN defaultStats ELSE doc

\* reduce((sum, x) => sum + x, 0)
RECURSIVE SumInts(_)
SumInts(q) == IF q = << >> THEN 0 ELSE Head(q) + SumInts(Tail(q))

\* the findOneAndUpdate of calculateOverallRisk: the three fields of r
\* written into the document
writeOverallRisk(doc, r) ==
    [doc EXCEPT !.overallRiskScore = r.overallRiskScore,
                !.riskCategory = r.riskCategory,
                !.componentScores = r.componentScores]

\* a risk calculation that writes nothing
withOverallRiskKept(doc) == doc

\* calculateOverallRisk run alone: the document it read gets its own risk
withOverallRisk(doc) == writeOverallRisk(doc, calculateOverallRisk(doc))

\* a percentage that is 0 when there are no records
attendancePercentageZero(presentDays, totalDays) ==
    IF totalDays > 0 THEN Round(presentDays * 100, totalDays) ELSE 0

\* totalDays > 0 ? Math.round((presentDays / totalDays) * 100) : 100
attendancePercentageOf(presentDays, totalDays) ==
    IF totalDays > 0 THEN Round(presentDays * 100, totalDays) ELSE 100

\* the findOneAndUpdate of updateAttendanceStats: the attendance fields,
\* computed from records (the student's Attendance documents as read),
\* written into the document d0
writeAttendanceStats(d0, records) ==
    LET totalDays   == Cardinality(records)
        presentDays == Cardinality({a \in records : a.status = "PRESENT"})
    IN  [d0 EXCEPT !.totalDays = totalDays,
                   !.presentDays = presentDays,
                   !.absentDays = Cardinality({a \in records : a.status = "ABSENT"}),
                   !.lateDays = Cardinality({a \in records : a.status = "LATE"}),
                   !.curfewViolations =
                       Cardinality({a \in records : a.curfewViolation}),
                   !.attendancePercentage =
                       attendancePercentageOf(presentDays, totalDays)]

\* updateAttendanceStats run alone
updateAttendanceStats(doc, records) ==
    withOverallRisk(writeAttendanceStats(initializeStats(doc), records))

\* the reduce of frequentLeaveType over the keys in first-occurrence order: a
\* later key replaces the current one unless the current count is greater
RECURSIVE frequentType(_, _, _)
frequentType(best, ls, i) ==
    LET count(ty) == LET Is(l) == l.leaveType = ty IN Len(SelectSeq(ls, Is))
        first     == \A j \in 1..(i - 1) : ls[j].leaveType # ls[i].leaveType
    IN  IF i > Len(ls) THEN best
        ELSE IF ~first THEN frequentType(best, ls, i + 1)
        ELSE IF best = Null \/ ~(count(best) > count(ls[i].leaveType))
             THEN frequentType(ls[i].leaveType, ls, i + 1)
             ELSE frequentType(best, ls, i + 1)

\* the findOneAndUpdate of updateLeaveStats: the leave fields, computed from ls
\* (the student's Leave documents as read, in creation order, which is
\* createdAt order) at time t, written into the document d0
writeLeaveStats(d0, ls, t) ==
    LET approved(l) == l.status \in {"APPROVED", "AUTO_APPROVED"}
        rejected(l) == l.status = "REJECTED"
        auto(l)     == l.status = "AUTO_APPROVED"
        flagged(l)  == l.status = "FLAGGED"
        completed(l) == l.returnedOnTime # Null
        onTime(l)   == l.returnedOnTime = "true"
        lateRet(l)  == l.returnedOnTime = "false"
        days(l)     == Max(1, CeilDays(l.toDateTime - l.fromDateTime) + 1)
        thisMonth(l) == l.createdAt >= thisMonthStart(t)
        approvedLeaves == SelectSeq(ls, approved)
        completedLeaves == SelectSeq(ls, completed)
        totalLeaveDaysTaken == SumInts([i \in 1..Len(approvedLeaves) |->
                                            days(approvedLeaves[i])])
        onTimeReturns == Len(SelectSeq(completedLeaves, onTime))
        n == Len(ls)
    IN    [d0 EXCEPT
             !.totalLeavesApplied = n,
             !.totalLeavesApproved = Len(approvedLeaves),
             !.totalLeavesRejected = Len(SelectSeq(ls, rejected)),
             !.totalLeavesAutoApproved = Len(SelectSeq(ls, auto)),
             !.totalLeavesFlagged = Len(SelectSeq(ls, flagged)),
             !.totalLeaveDaysTaken = totalLeaveDaysTaken,
             !.onTimeReturns = onTimeReturns,
             !.lateReturns = Len(SelectSeq(completedLeaves, lateRet)),
             !.returnReliabilityScore =
                 IF Len(completedLeaves) > 0
                 THEN Round(onTimeReturns * 100, Len(completedLeaves)) ELSE 100,
             \* Math.round(x * 10) / 10, kept in tenths
             !.avgLeaveDuration =
                 IF Len(approvedLeaves) > 0
                 THEN Round(totalLeaveDaysTaken * 10, Len(approvedLeaves)) ELSE 0,
             \* the gaps telescope: (last createdAt - first createdAt) in days
             !.avgLeaveFrequency =
                 IF n >= 2
                 THEN Round(ls[n].createdAt - ls[1].createdAt, 2 * (n - 1)) ELSE 0,
             !.frequentLeaveType = frequentType(Null, ls, 1),
             !.leavesThisMonth = Len(SelectSeq(ls, thisMonth)),
             \* the model's days all lie in one half-year
             !.leavesThisSemester = n,
             !.lastLeaveDate = IF n > 0 THEN ls[n].createdAt ELSE -1]

\* updateLeaveStats run alone
updateLeaveStats(doc, ls, t) ==
    withOverallRisk(writeLeaveStats(initializeStats(doc), ls, t))

\* a refresh that adds the leaves to the stored count instead of recounting
refreshAllStatsAdding(doc, records, ls, t) ==
    LET d == updateLeaveStats(updateAttendanceStats(doc, records), ls, t)
    IN  [d EXCEPT !.totalLeavesApplied = initializeStats(doc).totalLeavesApplied
                                           + Len(ls)]

\* updateAttendanceStats, then updateLeaveStats
refreshAllStats(doc, records, ls, t) ==
    updateLeaveStats(updateAttendanceStats(doc, records), ls, t)

-----------------------------------------------------------------------------
(* SpecPredict: predictLeaveApproval over student profiles, calendars, scopes
   and windows *)

\* StudentStats documents: no history, a long clean history, a poor record
StatsProfiles ==
    { defaultStats,
      [defaultStats EXCEPT !.totalDays = 40, !.presentDays = 40,
                           !.totalLeavesApplied = 2, !.totalLeavesApproved = 2,
                           !.onTimeReturns = 2],
      [defaultStats EXCEPT !.totalDays = 40, !.presentDays = 16,
                           !.absentDays = 24, !.attendancePercentage = 40,
                           !.totalLeavesApplied = 4, !.totalLeavesApproved = 2,
                           !.totalLeavesRejected = 2, !.lateReturns = 2,
                           !.returnReliabilityScore = 0, !.curfewViolations = 3,
                           !.leavesThisMonth = 4] }

\* AcademicCalendar documents a prediction may meet
PredictEventPool ==
    { [title |-> "Finals", leavePolicy |-> "BLOCKED", riskModifier |-> 0,
       startDate |-> 4, endDate |-> 5, affectsHostels |-> {}, affectsCourses |-> {},
       affectsYears |-> {}, priority |-> 10, isActive |-> TRUE],
      [title |-> "Block B fumigation", leavePolicy |-> "BLOCKED",
       riskModifier |-> 20, startDate |-> 2, endDate |-> 3,
       affectsHostels |-> {"B"}, affectsCourses |-> {}, affectsYears |-> {},
       priority |-> 8, isActive |-> TRUE],
      [title |-> "Lab review", leavePolicy |-> "FLAGGED", riskModifier |-> 50,
       startDate |-> 3, endDate |-> 4, affectsHostels |-> {}, affectsCourses |-> {},
       affectsYears |-> {}, priority |-> 5, isActive |-> TRUE],
      [title |-> "Festival break", leavePolicy |-> "ENCOURAGED",
       riskModifier |-> -30, startDate |-> 0, endDate |-> 6, affectsHostels |-> {},
       affectsCourses |-> {}, affectsYears |-> {}, priority |-> 10,
       isActive |-> TRUE],
      [title |-> "Sports week", leavePolicy |-> "ENCOURAGED",
       riskModifier |-> -10, startDate |-> 4, endDate |-> 6, affectsHostels |-> {},
       affectsCourses |-> {}, affectsYears |-> {}, priority |-> 1,
       isActive |-> TRUE],
      [title |-> "Cancelled exam", leavePolicy |-> "BLOCKED", riskModifier |-> 0,
       startDate |-> 0, endDate |-> 6, affectsHostels |-> {}, affectsCourses |-> {},
       affectsYears |-> {}, priority |-> 20, isActive |-> FALSE] }

\* req.user: two hostel blocks, and a user without a hostel block
PredictStudents ==
    { [hostelBlock |-> "A", course |-> "CSE", year |-> 2],
      [hostelBlock |-> "B", course |-> "CSE", year |-> 2],
      [hostelBlock |-> "", course |-> "CSE", year |-> 2] }

InitPredict ==
    /\ leaves = << >> /\ attendance = << >> /\ stats = << >>
    /\ gateLogs = << >> /\ auditLogs = << >> /\ now = 0 /\ resp = emptyResp
    /\ ret = NoDoc
    /\ events \in SUBSET PredictEventPool
    /\ call \in { [fn |-> "predictLeaveApproval", st |-> st, studentInfo |-> u,
                   request |-> [leaveType |-> "REGULAR", fromDate |-> from,
                                toDate |-> from + d, reasonLength |-> 20]] :
                    st \in StatsProfiles, u \in PredictStudents,
                    from \in {1, 2, 4}, d \in {1, 2} }

PredictStep ==
    /\ call.fn = "predictLeaveApproval" /\ ret = NoDoc
    /\ \E q \in getEventsInRange(events, call.request.fromDate, call.request.toDate) :
          ret' = predictLeaveApproval(call.st, q, call.studentInfo, call.request,
                                      << >>, now)
    /\ PureFrame

NextPredict == PredictStep

SpecPredict == InitPredict /\ [][NextPredict]_vars

\* the event names the student in each scope list it has, or has no list
AppliesTo(event, student) ==
    /\ event.affectsHostels # {} => student.hostelBlock \in event.affectsHostels
    /\ event.affectsCourses # {} => student.course \in event.affectsCourses
    /\ event.affectsYears # {} => student.year \in event.affectsYears

\* an active BLOCKED event of evs applies to the student and overlaps [from, to]
BlockedWindow(evs, student, from, to) ==
    \E e \in evs : /\ e.isActive /\ e.leavePolicy = "BLOCKED"
                   /\ e.startDate <= to /\ e.endDate >= from
                   /\ AppliesTo(e, student)

\* C2: calendar veto precedence.  Whenever an active BLOCKED event applies to
\* the student and overlaps the requested window, predictLeaveApproval yields
\* canApply = false and decision REJECT, for every student profile, risk score
\* and confidence.
BlockedVetoes ==
    (/\ ret # NoDoc /\ call.fn = "predictLeaveApproval"
     /\ BlockedWindow(events, call.studentInfo, call.request.fromDate,
                      call.request.toDate))
        => /\ ~ret.features.calendar.canApply
           /\ ret.prediction.decision = "REJECT"

\* a blocked window was rejected for a student whose risk score is at most 20
\* with confidence at least 0.6
BlockedLowRiskWitness ==
    /\ ret # NoDoc /\ call.fn = "predictLeaveApproval"
    /\ BlockedWindow(events, call.studentInfo, call.request.fromDate,
                     call.request.toDate)
    /\ ret.prediction.riskScore <= 20 /\ ret.prediction.confidence >= 60
    /\ ret.prediction.decision = "REJECT"

-----------------------------------------------------------------------------
(* Spec: the application as a state machine, one action per request *)

\* the latest instant of the clock
MaxTime == 1

\* the most Leave documents
MaxLeaves == 2

\* the most GateLog documents
MaxGateLogs == 3

Students == {"s1"}

\* req.user of a student: hostelBlock, course, year
studentInfo(s) == [hostelBlock |-> "A", course |-> "CSE", year |-> 2]

\* the values Math.random() can give generateGatePass
GatePassIds == {"GP-1", "GP-2"}

\* the AcademicCalendar documents the wardens have created
EventPool ==
    { [title |-> "Exam prep", leavePolicy |-> "DISCOURAGED", riskModifier |-> 15,
       startDate |-> 0, endDate |-> 0, affectsHostels |-> {}, affectsCourses |-> {},
       affectsYears |-> {}, priority |-> 1, isActive |-> TRUE],
      [title |-> "Lab review", leavePolicy |-> "FLAGGED", riskModifier |-> 50,
       startDate |-> 3, endDate |-> 3, affectsHostels |-> {"A"},
       affectsCourses |-> {}, affectsYears |-> {}, priority |-> 5,
       isActive |-> TRUE],
      [title |-> "Mid-sem exam", leavePolicy |-> "BLOCKED", riskModifier |-> 0,
       startDate |-> 4, endDate |-> 5, affectsHostels |-> {}, affectsCourses |-> {},
       affectsYears |-> {}, priority |-> 10, isActive |-> TRUE] }

\* toDateTime - fromDateTime of the requests
Durations == {0, 1, 3}

\* reason.length of the requests
ReasonLengths == {20}

\* riskScore: null
NullScore == -1

studentLeaves(ls, s) == LET Mine(l) == l.studentId = s IN SelectSeq(ls, Mine)

studentAttendance(att, s) == { a \in att : a.studentId = s }

Init ==
    /\ leaves = << >>
    /\ attendance = {}
    /\ stats = [s \in Students |-> NoDoc]
    /\ events = EventPool
    /\ gateLogs = << >>
    /\ auditLogs = << >>
    /\ now = 0
    /\ resp = emptyResp
    /\ call = NoDoc
    /\ ret = NoDoc

Respond(op, code, leaveId, decision) ==
    resp' = [op |-> op, code |-> code, leaveId |-> leaveId, decision |-> decision]

\* an index that accepts every gate pass
gatePassAny(ls, id, gp) == TRUE

\* the unique sparse index on Leave.gatePassId accepts gp for leave id
gatePassUnique(ls, id, gp) ==
    \A j \in 1..Len(ls) : j # id => ls[j].gatePassId # gp

\* a mapping that sends FLAG and REJECT to PENDING
initialStatusPending(decision) ==
    IF decision = "AUTO_APPROVE" THEN "AUTO_APPROVED" ELSE "PENDING"

\* the status POST /apply gives the new leave
initialStatusOf(decision) ==
    IF decision = "AUTO_APPROVE" THEN "AUTO_APPROVED"
    ELSE IF decision \in {"FLAG", "REJECT"} THEN "FLAGGED"
    ELSE "PENDING"

\* the aiDecision POST /apply gives the new leave
aiDecisionOf(decision) ==
    IF decision = "AUTO_APPROVE" THEN "AUTO_APPROVED"
    ELSE IF decision \in {"FLAG", "REJECT"} THEN "FLAGGED"
    ELSE "MANUAL"

\* Leave.create(...) of POST /apply
newLeave(s, request, prediction, t) ==
    [studentId     |-> s,
     leaveType     |-> request.leaveType,
     \* reason, by its length
     reasonLength  |-> request.reasonLength,
     fromDateTime  |-> request.fromDate,
     toDateTime    |-> request.toDate,
     status        |-> initialStatusOf(prediction.prediction.decision),
     gatePassId    |-> Null,
     currentStatus |-> "IN",
     \* prediction.prediction.riskScore || null
     riskScore     |-> OrDefault(prediction.prediction.riskScore, NullScore),
     riskCategory  |-> prediction.prediction.riskCategory,
     predictionFactors |->
        [attendanceScore |-> prediction.features.student.attendancePercentage,
         historyScore    |-> prediction.featureScores.history,
         calendarScore   |-> prediction.features.calendar.calendarScore,
         patternScore    |-> prediction.featureScores.frequency],
     aiDecision    |-> aiDecisionOf(prediction.prediction.decision),
     aiDecisionReason |->
        IF prediction.prediction.decision = "MANUAL_REVIEW"
        THEN "Standard review required" ELSE prediction.recommendation.reason,
     returnedOnTime |-> Null,
     approvedBy    |-> Null,
     createdAt     |-> t]

\* POST /api/leaves/apply
Apply(s, leaveType, from, to, reasonLength) ==
    /\ Len(leaves) < MaxLeaves
    /\ UNCHANGED <<attendance, events, gateLogs, auditLogs, now, call, ret>>
    /\ IF from >= to \/ from < now
       THEN /\ Respond("apply", 400, 0, Null)
            /\ UNCHANGED <<leaves, stats>>
       ELSE \E q \in getEventsInRange(events, from, to), gp \in GatePassIds :
              LET request == [leaveType |-> leaveType, fromDate |-> from,
                              toDate |-> to, reasonLength |-> reasonLength]
                  st0 == initializeStats(stats[s])
                  prediction == predictLeaveApproval(st0, q, studentInfo(s), request,
                                                     studentLeaves(leaves, s), now)
                  leave == newLeave(s, request, prediction, now)
                  id    == Len(leaves) + 1
                  saved == Append(leaves, [leave EXCEPT !.gatePassId = gp])
              IN  IF leave.status # "AUTO_APPROVED"
                  THEN /\ leaves' = Append(leaves, leave)
                       /\ stats' = [stats EXCEPT ![s] = st0]
                       /\ Respond("apply", 201, id, prediction.prediction.decision)
                  ELSE IF gatePassUnique(leaves, id, gp)
                  THEN /\ leaves' = saved
                       /\ stats' = [stats EXCEPT ![s] =
                             updateLeaveStats(st0, studentLeaves(saved, s), now)]
                       /\ Respond("apply", 201, id, prediction.prediction.decision)
                  \* leave.save() throws on the duplicate key: the created
                  \* document stays, the request answers 500
                  ELSE /\ leaves' = Append(leaves, leave)
                       /\ stats' = [stats EXCEPT ![s] = st0]
                       /\ Respond("apply", 500, id, prediction.prediction.decision)

\* the Attendance upserts of an approval: every day from the day of
\* fromDateTime to the day of toDateTime becomes ON_LEAVE
markOnLeave(att, s, from, to) ==
    LET days == Day(from)..Day(to)
        kept == { a \in att : ~(a.studentId = s /\ a.date \in days) }
        flag(d) == \E a \in att : a.studentId = s /\ a.date = d /\ a.curfewViolation
    IN  kept \cup { [studentId |-> s, date |-> d, status |-> "ON_LEAVE",
                     curfewViolation |-> flag(d)] : d \in days }

\* a guard that lets every leave be decided again
alreadyProcessedNever(leave) == FALSE

\* leave.status !== 'PENDING' && leave.status !== 'FLAGGED'
alreadyProcessed(leave) == leave.status \notin {"PENDING", "FLAGGED"}

\* a decision that also rewrites the AI fields of the leave
decideRescoring(leave, action, gp) ==
    [leave EXCEPT !.status = IF action = "APPROVE" THEN "APPROVED" ELSE "REJECTED",
                  !.approvedBy = "warden",
                  !.gatePassId = IF action = "APPROVE" THEN gp ELSE @,
                  !.aiDecision = "MANUAL",
                  !.aiDecisionReason = "Decided by warden"]

\* the fields PATCH /:id/decision assigns before leave.save()
decide(leave, action, gp) ==
    [leave EXCEPT !.status = IF action = "APPROVE" THEN "APPROVED" ELSE "REJECTED",
                  !.approvedBy = "warden",
                  !.gatePassId = IF action = "APPROVE" THEN gp ELSE @]

\* PATCH /api/leaves/:id/decision
Decision(id, action, gp) ==
    /\ UNCHANGED <<events, gateLogs, now, call, ret>>
    /\ IF id > Len(leaves)
       THEN /\ Respond("decision", 404, id, Null)
            /\ UNCHANGED <<leaves, attendance, stats, auditLogs>>
       ELSE IF alreadyProcessed(leaves[id])
       THEN /\ Respond("decision", 400, id, Null)
            /\ UNCHANGED <<leaves, attendance, stats, auditLogs>>
       ELSE
         LET l == leaves[id]
             s == l.studentId
             decided == decide(l, action, gp)
             saved == [leaves EXCEPT ![id] = decided]
         IN  /\ attendance' = IF action = "APPROVE"
                              THEN markOnLeave(attendance, s, l.fromDateTime,
                                               l.toDateTime)
                              ELSE attendance
             /\ IF action = "APPROVE" => gatePassUnique(leaves, id, gp)
                THEN /\ leaves' = saved
                     /\ stats' = [stats EXCEPT ![s] =
                           updateLeaveStats(stats[s], studentLeaves(saved, s), now)]
                     /\ auditLogs' = Append(auditLogs,
                           [action |-> action, targetId |-> id])
                     /\ Respond("decision", 200, id, action)
                \* leave.save() throws on the duplicate key
                ELSE /\ UNCHANGED <<leaves, stats, auditLogs>>
                     /\ Respond("decision", 500, id, action)

\* the leave Leave.findOne({ gatePassId }) returns, 0 if none
leaveOfGatePass(ls, gp) ==
    IF \E i \in 1..Len(ls) : ls[i].gatePassId = gp
    THEN CHOOSE i \in 1..Len(ls) : ls[i].gatePassId = gp
    ELSE 0

\* a test that never sees the student as out
isOutNever(leave) == FALSE

\* leave.currentStatus === 'OUT'
isOut(leave) == leave.currentStatus = "OUT"

\* POST /api/gate/exit
GateExit(gp) ==
    LET id == leaveOfGatePass(leaves, gp) IN
    /\ UNCHANGED <<attendance, stats, events, auditLogs, now, call, ret>>
    /\ IF id = 0
       THEN Respond("exit", 404, 0, Null) /\ UNCHANGED <<leaves, gateLogs>>
       ELSE IF \/ leaves[id].status # "APPROVED"
               \/ isOut(leaves[id])
               \/ now < leaves[id].fromDateTime
       THEN Respond("exit", 400, id, Null) /\ UNCHANGED <<leaves, gateLogs>>
       ELSE /\ Len(gateLogs) < MaxGateLogs
            /\ gateLogs' = Append(gateLogs, [leaveId |-> id, action |-> "EXIT"])
            /\ leaves' = [leaves EXCEPT ![id].currentStatus = "OUT"]
            /\ Respond("exit", 200, id, Null)

\* POST /api/gate/entry
GateEntry(gp) ==
    LET id == leaveOfGatePass(leaves, gp) IN
    /\ UNCHANGED <<attendance, stats, events, auditLogs, now, call, ret>>
    /\ IF id = 0
       THEN Respond("entry", 404, 0, Null) /\ UNCHANGED <<leaves, gateLogs>>
       ELSE IF ~isOut(leaves[id])
       THEN Respond("entry", 400, id, Null) /\ UNCHANGED <<leaves, gateLogs>>
       ELSE /\ Len(gateLogs) < MaxGateLogs
            /\ gateLogs' = Append(gateLogs, [leaveId |-> id, action |-> "ENTRY"])
            /\ leaves' = [leaves EXCEPT ![id].currentStatus = "IN"]
            /\ Respond("entry", 200, id, Null)

\* PATCH /api/gate/force-return/:leaveId
ForceReturn(id) ==
    /\ UNCHANGED <<attendance, stats, events, now, call, ret>>
    /\ IF id > Len(leaves)
       THEN /\ Respond("force-return", 404, id, Null)
            /\ UNCHANGED <<leaves, gateLogs, auditLogs>>
       ELSE IF ~isOut(leaves[id])
       THEN /\ Respond("force-return", 400, id, Null)
            /\ UNCHANGED <<leaves, gateLogs, auditLogs>>
       ELSE /\ Len(gateLogs) < MaxGateLogs
            /\ gateLogs' = Append(gateLogs, [leaveId |-> id, action |-> "ENTRY"])
            /\ leaves' = [leaves EXCEPT ![id].currentStatus = "IN"]
            /\ auditLogs' = Append(auditLogs,
                  [action |-> "FORCE_RETURN", targetId |-> id])
            /\ Respond("force-return", 200, id, Null)

\* POST /api/attendance/mark
MarkAttendance(s, day, status) ==
    /\ UNCHANGED <<leaves, stats, events, gateLogs, auditLogs, now, call, ret>>
    /\ LET kept == { a \in attendance : ~(a.studentId = s /\ a.date = day) }
           flag == \E a \in attendance :
                       a.studentId = s /\ a.date = day /\ a.curfewViolation
       IN  attendance' = kept \cup { [studentId |-> s, date |-> day,
                                      status |-> status, curfewViolation |-> flag] }
    /\ resp' = emptyResp

\* GET /api/stats/my-stats: initializeStats when the student has no document
MyStats(s) ==
    /\ stats' = [stats EXCEPT ![s] = initializeStats(@)]
    /\ resp' = emptyResp
    /\ UNCHANGED <<leaves, attendance, events, gateLogs, auditLogs, now, call, ret>>

\* POST /api/stats/refresh/:studentId
RefreshStats(s) ==
    /\ stats' = [stats EXCEPT ![s] =
          refreshAllStats(@, studentAttendance(attendance, s),
                          studentLeaves(leaves, s), now)]
    /\ resp' = [op |-> "refresh", code |-> 200, studentId |-> s]
    /\ UNCHANGED <<leaves, attendance, events, gateLogs, auditLogs, now, call, ret>>

\* time passes
\* the clock advances by one instant, up to the instant last
TickTo(last) ==
    /\ now < last
    /\ now' = now + 1
    /\ resp' = emptyResp
    /\ UNCHANGED <<leaves, attendance, stats, events, gateLogs, auditLogs, call, ret>>

Tick == TickTo(MaxTime)

Next ==
    \/ \E s \in Students, ty \in {"REGULAR"}, from \in 0..MaxTime,
          d \in Durations, n \in ReasonLengths : Apply(s, ty, from, from + d, n)
    \/ \E id \in 1..MaxLeaves, a \in {"APPROVE", "REJECT"}, gp \in GatePassIds :
          Decision(id, a, gp)
    \/ \E gp \in GatePassIds : GateExit(gp)
    \/ \E gp \in GatePassIds : GateEntry(gp)
    \/ \E id \in 1..MaxLeaves : ForceReturn(id)
    \/ \E s \in Students : RefreshStats(s)
    \/ Tick

\* the leave, gate and refresh requests in any order
Spec == Init /\ [][Next]_vars

NextStats ==
    \/ \E s \in Students, ty \in {"REGULAR"}, from \in 0..MaxTime,
          d \in Durations, n \in ReasonLengths : Apply(s, ty, from, from + d, n)
    \/ \E id \in 1..MaxLeaves, a \in {"APPROVE", "REJECT"}, gp \in GatePassIds :
          Decision(id, a, gp)
    \/ \E s \in Students, st \in {"PRESENT", "ABSENT"} :
          MarkAttendance(s, Day(now), st)
    \/ \E s \in Students : MyStats(s)
    \/ \E s \in Students : RefreshStats(s)
    \/ Tick

\* the leave, attendance and statistics requests in any order
SpecStats == Init /\ [][NextStats]_vars

-----------------------------------------------------------------------------
(* Properties of the statistics (SpecStats) *)

NoRecords(s) ==
    /\ studentLeaves(leaves, s) = << >>
    /\ studentAttendance(attendance, s) = {}

\* C3: for every student with no Attendance records and no Leave records, the
\* StudentStats document stored by initializeStats or refreshAllStats has
\* attendancePercentage 100, returnReliabilityScore 100, overallRiskScore 0 and
\* riskCategory LOW.
FreshStudentDefaults ==
    \A s \in Students :
        (NoRecords(s) /\ stats[s] # NoDoc) =>
            /\ stats[s].attendancePercentage = 100
            /\ stats[s].returnReliabilityScore = 100
            /\ stats[s].overallRiskScore = 0
            /\ stats[s].riskCategory = "LOW"

\* a refresh has just stored the statistics of a student with no records
FreshStudentRefreshedWitness ==
    \E s \in Students :
        /\ resp.op = "refresh" /\ resp.studentId = s
        /\ NoRecords(s) /\ stats[s] # NoDoc

\* C4: refreshAllStats is idempotent.  A refresh that directly follows a
\* refresh of the same student, with the same records and clock, leaves the
\* StudentStats document as the first refresh left it.
RefreshIdempotent ==
    [][\A s \in Students :
          (/\ resp.op = "refresh" /\ resp.studentId = s
           /\ resp'.op = "refresh" /\ resp'.studentId = s
           /\ UNCHANGED <<leaves, attendance, now>>)
              => stats'[s] = stats[s]]_vars

\* a refresh has just stored the statistics of a student who has leaves and
\* attendance records
RefreshWithRecordsWitness ==
    \E s \in Students :
        /\ resp.op = "refresh" /\ resp.studentId = s
        /\ Len(studentLeaves(leaves, s)) = MaxLeaves
        /\ studentAttendance(attendance, s) # {}
        /\ stats[s].totalLeavesApplied = MaxLeaves
        /\ stats[s].overallRiskScore > 0

-----------------------------------------------------------------------------
(* Properties of the leave lifecycle (Spec) *)

\* C5: leave status is monotone and human decisions are terminal.  A leave's
\* status changes only from PENDING or FLAGGED to APPROVED or REJECTED, and
\* only in a successful decision request on that leave; a decision request on
\* an APPROVED, REJECTED or AUTO_APPROVED leave answers 400 and leaves the
\* leaves, the attendance and the audit log unchanged.
StatusTerminal ==
    [][\A i \in 1..Len(leaves) :
          /\ i <= Len(leaves')
          /\ leaves'[i].status # leaves[i].status =>
                /\ leaves[i].status \in {"PENDING", "FLAGGED"}
                /\ leaves'[i].status \in {"APPROVED", "REJECTED"}
                /\ resp'.op = "decision" /\ resp'.code = 200
                /\ resp'.leaveId = i
          /\ (/\ resp'.op = "decision" /\ resp'.leaveId = i
              /\ leaves[i].status \in {"APPROVED", "REJECTED", "AUTO_APPROVED"})
                => /\ resp'.code = 400
                   /\ UNCHANGED <<leaves, attendance, auditLogs>>]_vars

\* a decision request on a processed leave has just been refused, with both
\* an automatic and a human approval on file
ProcessedDecisionRefusedWitness ==
    /\ resp.op = "decision" /\ resp.code = 400
    /\ resp.leaveId \in 1..Len(leaves)
    /\ leaves[resp.leaveId].status = "AUTO_APPROVED"
    /\ \E j \in 1..Len(leaves) : leaves[j].status = "APPROVED"

\* no two leaves share a gate pass
GatePassesDistinct(ls) ==
    \A i, j \in 1..Len(ls) :
        (i # j /\ ls[i].gatePassId # Null) => ls[i].gatePassId # ls[j].gatePassId

InitialStatusByDecision ==
    [][(resp'.op = "apply" /\ Len(leaves') = Len(leaves) + 1) =>
          LET l == leaves'[Len(leaves')]
              d == resp'.decision
          IN  /\ d = "AUTO_APPROVE" => l.status = "AUTO_APPROVED"
              /\ d \in {"FLAG", "REJECT"} => l.status = "FLAGGED"
              /\ d \notin {"AUTO_APPROVE", "FLAG", "REJECT"}
                    => l.status = "PENDING"]_vars

\* an application the prediction rejected has just been stored as FLAGGED
RejectStoredFlaggedWitness ==
    /\ resp.op = "apply" /\ resp.code = 201 /\ resp.decision = "REJECT"
    /\ leaves[resp.leaveId].status = "FLAGGED"

\* C8: when an application is auto-approved, by the time the apply request
\* completes the leave has a gate pass and the student has an ON_LEAVE
\* Attendance record for every day from the leave's from date to its to date.
AutoApprovedMarksAttendance ==
    (resp.op = "apply" /\ resp.code = 201 /\ resp.decision = "AUTO_APPROVE") =>
        LET l == leaves[resp.leaveId]
        IN  /\ l.gatePassId # Null
            /\ \A d \in Day(l.fromDateTime)..Day(l.toDateTime) :
                  \E a \in attendance : /\ a.studentId = l.studentId
                                        /\ a.date = d /\ a.status = "ON_LEAVE"

\* C9: blocked dates prevent leave applications.  POST /apply creates no
\* leave that a warden can later approve when the window overlaps an active
\* BLOCKED event that applies to the student: no such leave is ever APPROVED.
BlockedLeaveNeverApproved ==
    \A i \in 1..Len(leaves) :
        BlockedWindow(events, studentInfo(leaves[i].studentId),
                      leaves[i].fromDateTime, leaves[i].toDateTime)
            => leaves[i].status # "APPROVED"

-----------------------------------------------------------------------------
(* SpecScenario: predictLeaveApproval on the two documented student profiles,
   with every input the scenarios leave open varied *)

\* the days a request may be made on: two weeks, so every weekday
ScenarioTimes == 0..13

\* the student of the scenarios
ScenarioStudent == [hostelBlock |-> "A", course |-> "CSE", year |-> 2]

\* AcademicCalendar documents beside the scenarios: two general events (days
\* 6 and 4), one for another hostel block, one inactive
ScenarioEventPool ==
    { [title |-> "Review week", leavePolicy |-> "FLAGGED", riskModifier |-> 40,
       startDate |-> 8, endDate |-> 9, affectsHostels |-> {},
       affectsCourses |-> {}, affectsYears |-> {}, priority |-> 5,
       isActive |-> TRUE],
      [title |-> "Sports day", leavePolicy |-> "DISCOURAGED", riskModifier |-> 10,
       startDate |-> 12, endDate |-> 13, affectsHostels |-> {},
       affectsCourses |-> {}, affectsYears |-> {}, priority |-> 1,
       isActive |-> TRUE],
      [title |-> "Block B fumigation", leavePolicy |-> "BLOCKED",
       riskModifier |-> 20, startDate |-> 0, endDate |-> 60,
       affectsHostels |-> {"B"}, affectsCourses |-> {}, affectsYears |-> {},
       priority |-> 8, isActive |-> TRUE],
      [title |-> "Cancelled exam", leavePolicy |-> "BLOCKED", riskModifier |-> 0,
       startDate |-> 0, endDate |-> 60, affectsHostels |-> {}, affectsCourses |-> {},
       affectsYears |-> {}, priority |-> 20, isActive |-> FALSE] }

\* StudentStats documents of the low-risk profile: 90% attendance over 10 or
\* 40 days, 19 of 20 returns on time, 20 or 25 applications of which up to 5
\* were rejected, one leave this month
LowRiskStats ==
    { [defaultStats EXCEPT !.totalDays = td, !.presentDays = (td * 9) \div 10,
                           !.absentDays = td \div 10,
                           !.attendancePercentage = 90,
                           !.totalLeavesApplied = 20 + rej,
                           !.totalLeavesApproved = 20,
                           !.totalLeavesRejected = rej,
                           !.onTimeReturns = 19, !.lateReturns = 1,
                           !.returnReliabilityScore = 95,
                           !.leavesThisMonth = 1, !.leavesThisSemester = 1] :
        td \in {10, 40}, rej \in {0, 1, 5} }

\* StudentStats documents of the high-risk profile: 60% attendance, 2 curfew
\* violations, 4 leaves this month, any return record and rejection count
HighRiskStats ==
    { [defaultStats EXCEPT !.totalDays = 40, !.presentDays = 24,
                           !.absentDays = 16, !.attendancePercentage = 60,
                           !.curfewViolations = 2,
                           !.totalLeavesApplied = 4 + rej,
                           !.totalLeavesApproved = 4,
                           !.totalLeavesRejected = rej,
                           !.onTimeReturns = r[1], !.lateReturns = r[2],
                           !.returnReliabilityScore = r[3],
                           !.leavesThisMonth = 4, !.leavesThisSemester = 4] :
        rej \in {0, 4}, r \in {<<0, 0, 100>>, <<2, 2, 50>>, <<0, 4, 0>>} }

\* the requests of the low-risk scenario: REGULAR, two days long, five days
\* ahead (the differences are counted with Math.ceil, in half-days here)
LowRiskCalls ==
    { [fn |-> "predictLeaveApproval", st |-> st, studentInfo |-> ScenarioStudent,
       at |-> t,
       request |-> [leaveType |-> "REGULAR", fromDate |-> t + ahead,
                    toDate |-> t + ahead + d, reasonLength |-> n]] :
        st \in LowRiskStats, t \in ScenarioTimes, ahead \in {9, 10},
        d \in {1, 2}, n \in {5, 20} }

\* the requests of the high-risk scenario: OTHER, starting on the day of the
\* request (at that instant, or later that day)
HighRiskCalls ==
    { [fn |-> "predictLeaveApproval", st |-> st, studentInfo |-> ScenarioStudent,
       at |-> t,
       request |-> [leaveType |-> "OTHER", fromDate |-> t + later,
                    toDate |-> t + later + d, reasonLength |-> n]] :
        st \in HighRiskStats, t \in ScenarioTimes, later \in {0, 1},
        d \in {0, 1, 2}, n \in {5, 20} }

InitScenario ==
    /\ leaves = << >> /\ attendance = << >> /\ stats = << >>
    /\ gateLogs = << >> /\ auditLogs = << >> /\ resp = emptyResp
    /\ ret = NoDoc
    /\ events \in SUBSET ScenarioEventPool
    /\ call \in LowRiskCalls
                 \cup { c \in HighRiskCalls : Day(c.request.fromDate) = Day(c.at) }
    /\ now = call.at

ScenarioStep ==
    /\ call.fn = "predictLeaveApproval" /\ ret = NoDoc
    /\ \E q \in getEventsInRange(events, call.request.fromDate, call.request.toDate) :
          ret' = predictLeaveApproval(call.st, q, call.studentInfo, call.request,
                                      << >>, now)
    /\ PureFrame

NextScenario == ScenarioStep

SpecScenario == InitScenario /\ [][NextScenario]_vars

\* no active event that is relevant to the student overlaps the window
NoCalendarConflict ==
    \A e \in events :
        ~(overlaps(e, call.request.fromDate, call.request.toDate)
          /\ isRelevant(e, call.studentInfo))

\* the low-risk profile and request, read off the call and its features
LowRiskScenario ==
    /\ ret # NoDoc
    /\ call.st.attendancePercentage = 90 /\ call.st.returnReliabilityScore = 95
    /\ call.st.curfewViolations = 0 /\ call.st.leavesThisMonth = 1
    /\ call.st.totalDays > 0 /\ call.st.totalLeavesApplied > 0
    /\ call.st.onTimeReturns + call.st.lateReturns > 0
    /\ call.request.leaveType = "REGULAR"
    /\ ret.features.request.durationDays = 2
    /\ ret.features.request.daysUntilLeave = 5

\* C11: low-risk scenario.  A student with attendancePercentage 90,
\* returnReliabilityScore 95, no curfew violations and one leave this month,
\* with attendance, leave and return history, asking for a REGULAR leave of 2
\* days 5 days ahead with no overlapping calendar event gets calendarScore 0,
\* riskScore <= 20, confidence >= 0.6 and decision AUTO_APPROVE, whatever the
\* rejection count, the start weekday and the reason length.
LowRiskAutoApproved ==
    (LowRiskScenario /\ NoCalendarConflict) =>
        /\ ret.features.calendar.calendarScore = 0
        /\ ret.prediction.riskScore <= 20
        /\ ret.prediction.confidence >= 60
        /\ ret.prediction.decision = "AUTO_APPROVE"

\* the scenario with five rejections on record, a short reason, a weekday
\* start and events of another hostel block in the calendar
LowRiskWorstCaseWitness ==
    /\ LowRiskScenario /\ NoCalendarConflict
    /\ call.st.totalLeavesRejected = 5 /\ call.request.reasonLength = 5
    /\ ~ret.features.request.isWeekend /\ events # {}
    /\ ret.prediction.riskScore = 9
    /\ ret.prediction.decision = "AUTO_APPROVE"

\* the high-risk profile and request
HighRiskScenario ==
    /\ ret # NoDoc
    /\ call.st.attendancePercentage = 60 /\ call.st.curfewViolations = 2
    /\ call.st.leavesThisMonth = 4
    /\ call.request.leaveType = "OTHER"
    /\ Day(call.request.fromDate) = Day(call.at)

\* C12: high-risk scenario.  A student with attendancePercentage 60, 2 curfew
\* violations and 4 leaves this month asking for a leave of type OTHER on the
\* day it starts gets riskScore > 60 and decision FLAG, and the attention
\* points include the low-attendance note and the curfew-violation note.
HighRiskFlagged ==
    HighRiskScenario =>
        /\ ret.prediction.riskScore > 60
        /\ ret.prediction.decision = "FLAG"
        /\ \E i \in DOMAIN ret.recommendation.attentionPoints :
              ret.recommendation.attentionPoints[i] = "Low attendance"
        /\ \E i \in DOMAIN ret.recommendation.attentionPoints :
              ret.recommendation.attentionPoints[i] = "curfew violations"

-----------------------------------------------------------------------------
(* The gate log of a leave *)

\* the GateLog documents of leave id, in creation order
logsOfLeave(logs, id) ==
    LET Mine(g) == g.leaveId = id IN SelectSeq(logs, Mine)

\* the logs of every leave go EXIT, ENTRY, EXIT, ... and the leave is OUT
\* exactly when its last log is an EXIT
Alternates(ls, logs) ==
    \A id \in 1..Len(ls) :
        LET mine == logsOfLeave(logs, id)
        IN  /\ \A k \in 1..Len(mine) :
                  mine[k].action = IF k % 2 = 1 THEN "EXIT" ELSE "ENTRY"
            /\ ls[id].currentStatus = "OUT" <=>
                  (Len(mine) > 0 /\ mine[Len(mine)].action = "EXIT")

\* C16: gate exit and entry strictly alternate per leave.  An exit for a leave
\* whose currentStatus is OUT is rejected, an entry or force-return for a leave
\* whose currentStatus is not OUT is rejected, each without creating a GateLog;
\* so the GateLog entries of a leave go EXIT, ENTRY, EXIT, ... from an EXIT,
\* and currentStatus is OUT exactly when the leave's last GateLog is an EXIT.
GateAlternation ==
    [][/\ (/\ resp'.op = "exit" /\ resp'.leaveId # 0
           /\ leaves[resp'.leaveId].currentStatus = "OUT")
             => resp'.code = 400 /\ gateLogs' = gateLogs /\ leaves' = leaves
       /\ (/\ resp'.op \in {"entry", "force-return"}
           /\ resp'.leaveId \in 1..Len(leaves)
           /\ leaves[resp'.leaveId].currentStatus # "OUT")
             => resp'.code = 400 /\ gateLogs' = gateLogs /\ leaves' = leaves
       /\ Alternates(leaves', gateLogs')]_vars

\* a leave went out, came back and went out again, and a further exit scan
\* was refused
ExitEntryExitWitness ==
    /\ resp.op = "exit" /\ resp.code = 400 /\ resp.leaveId # 0
    /\ LET mine == logsOfLeave(gateLogs, resp.leaveId)
       IN  /\ Len(mine) = 3
           /\ mine[1].action = "EXIT" /\ mine[2].action = "ENTRY"
           /\ mine[3].action = "EXIT"
    /\ leaves[resp.leaveId].currentStatus = "OUT"

-----------------------------------------------------------------------------
(* The ML routes (routes/ml.js) beside the leave and gate routes *)

\* the leaveRequest the ML routes build from a stored leave
requestOfLeave(leave) ==
    [leaveType |-> leave.leaveType, fromDate |-> leave.fromDateTime,
     toDate |-> leave.toDateTime, reasonLength |-> leave.reasonLength]

\* Leave.find({ status: 'PENDING' }).sort({ createdAt: 1 }), as the ids in
\* creation order
pendingLeaves(ls) ==
    LET IsPending(i) == ls[i].status = "PENDING"
    IN  SelectSeq([i \in 1..Len(ls) |-> i], IsPending)

\* the calendar query results the predictions of a batch may see, one for
\* each leave of ids
batchQueries(ls, evs, ids) ==
    LET queryOf(i) == getEventsInRange(evs, ls[ids[i]].fromDateTime,
                                       ls[ids[i]].toDateTime)
    IN  { qs \in [1..Len(ids) -> UNION { queryOf(i) : i \in 1..Len(ids) }] :
            \A i \in 1..Len(ids) : qs[i] \in queryOf(i) }

\* a.prediction?.riskScore || 0
sortKey(entry) == IF entry.failed THEN 0 ELSE OrDefault(entry.riskScore, 0)

\* Array.prototype.sort with (a, b) => scoreB - scoreA: stable, descending
RECURSIVE sortByRisk(_)
sortByRisk(entries) ==
    IF entries = << >> THEN << >>
    ELSE LET rest == sortByRisk(Tail(entries))
             e    == Head(entries)
             Before(x) == sortKey(x) > sortKey(e)
             After(x)  == ~(sortKey(x) > sortKey(e))
         IN  SelectSeq(rest, Before) \o << e >> \o SelectSeq(rest, After)

\* the entry predict-batch pushes for leave id: the prediction, or the error
\* of the catch block
batchEntry(id, prediction, failed) ==
    IF failed
    THEN [id |-> id, failed |-> TRUE, riskScore |-> NullScore, decision |-> Null]
    ELSE [id |-> id, failed |-> FALSE,
          riskScore |-> prediction.prediction.riskScore,
          decision |-> prediction.prediction.decision]

\* POST /api/ml/predict/:leaveId
PredictLeave(id) ==
    /\ UNCHANGED <<leaves, attendance, events, gateLogs, auditLogs, now, call, ret>>
    /\ IF id > Len(leaves)
       THEN /\ resp' = [op |-> "predict", code |-> 404, leaveId |-> id,
                         decision |-> Null, riskScore |-> NullScore]
            /\ UNCHANGED stats
       ELSE \E q \in getEventsInRange(events, leaves[id].fromDateTime,
                                      leaves[id].toDateTime) :
              LET l   == leaves[id]
                  s   == l.studentId
                  st0 == initializeStats(stats[s])
                  prediction == predictLeaveApproval(st0, q, studentInfo(s),
                                    requestOfLeave(l), studentLeaves(leaves, s), now)
              IN  /\ stats' = [stats EXCEPT ![s] = st0]
                  /\ resp' = [op |-> "predict", code |-> 200, leaveId |-> id,
                               decision |-> prediction.prediction.decision,
                               riskScore |-> prediction.prediction.riskScore]

\* POST /api/ml/predict-batch; fails: the leaves whose prediction throws
PredictBatch(fails) ==
    LET ids == pendingLeaves(leaves) IN
    /\ fails \subseteq { ids[i] : i \in 1..Len(ids) }
    /\ UNCHANGED <<leaves, attendance, events, gateLogs, auditLogs, now, call, ret>>
    /\ \E qs \in batchQueries(leaves, events, ids) :
          LET s(i) == leaves[ids[i]].studentId
              prediction(i) ==
                  predictLeaveApproval(initializeStats(stats[s(i)]), qs[i],
                      studentInfo(s(i)), requestOfLeave(leaves[ids[i]]),
                      studentLeaves(leaves, s(i)), now)
              predictions == [i \in 1..Len(ids) |->
                                 batchEntry(ids[i], prediction(i), ids[i] \in fails)]
              reached == { s(i) : i \in 1..Len(ids) }
          IN  /\ stats' = [x \in Students |->
                             IF x \in reached THEN initializeStats(stats[x])
                             ELSE stats[x]]
              /\ resp' = [op |-> "predict-batch", code |-> 200,
                          data |-> sortByRisk(predictions)]

\* GET /api/ml/dashboard: the counts, and the predictions of the first ten
\* pending leaves, made without studentInfo
Dashboard ==
    LET ids == pendingLeaves(leaves)
        noInfo == [hostelBlock |-> "", course |-> "", year |-> 0]
    IN
    /\ UNCHANGED <<leaves, attendance, events, gateLogs, auditLogs, now, call, ret>>
    /\ \E qs \in batchQueries(leaves, events, ids) :
          LET s(i) == leaves[ids[i]].studentId
              prediction(i) ==
                  predictLeaveApproval(initializeStats(stats[s(i)]), qs[i],
                      noInfo, requestOfLeave(leaves[ids[i]]),
                      studentLeaves(leaves, s(i)), now)
              reached == { s(i) : i \in 1..Len(ids) }
          IN  /\ stats' = [x \in Students |->
                             IF x \in reached THEN initializeStats(stats[x])
                             ELSE stats[x]]
              /\ resp' = [op |-> "dashboard", code |-> 200,
                          pendingLeaves |-> Len(ids),
                          highRiskPending |->
                              Cardinality({ i \in 1..Len(ids) :
                                  prediction(i).prediction.riskCategory = "HIGH" })]

\* the most GateLog documents beside the ML requests
MaxWardenGateLogs == 2

NextWarden ==
    \/ \E s \in Students, ty \in {"REGULAR"}, from \in 0..MaxTime,
          d \in Durations, n \in ReasonLengths : Apply(s, ty, from, from + d, n)
    \/ \E id \in 1..MaxLeaves, a \in {"APPROVE", "REJECT"}, gp \in GatePassIds :
          Decision(id, a, gp)
    \/ \E gp \in GatePassIds :
          GateExit(gp) /\ Len(gateLogs') <= MaxWardenGateLogs
    \/ \E gp \in GatePassIds :
          GateEntry(gp) /\ Len(gateLogs') <= MaxWardenGateLogs
    \/ \E id \in 1..MaxLeaves :
          ForceReturn(id) /\ Len(gateLogs') <= MaxWardenGateLogs
    \/ \E s \in Students : RefreshStats(s)
    \/ \E id \in 1..MaxLeaves : PredictLeave(id)
    \/ \E fails \in SUBSET (1..MaxLeaves) : PredictBatch(fails)
    \/ Dashboard
    \/ Tick

\* the leave, gate, refresh and ML requests in any order
SpecWarden == Init /\ [][NextWarden]_vars

\* riskScore, riskCategory, predictionFactors, aiDecision, aiDecisionReason
riskSnapshot(leave) ==
    [riskScore |-> leave.riskScore, riskCategory |-> leave.riskCategory,
     predictionFactors |-> leave.predictionFactors,
     aiDecision |-> leave.aiDecision,
     aiDecisionReason |-> leave.aiDecisionReason]

\* C13: the risk snapshot of a leave is frozen at creation.  Once POST
\* /leaves/apply has stored riskScore, riskCategory, predictionFactors,
\* aiDecision and aiDecisionReason, every later request (warden decision, gate
\* exit and entry, force-return, stats refresh, POST /ml/predict/:leaveId,
\* predict-batch, dashboard) leaves these five fields of the leave unchanged.
RiskSnapshotFrozen ==
    [][\A i \in 1..Len(leaves) :
          /\ i <= Len(leaves')
          /\ riskSnapshot(leaves'[i]) = riskSnapshot(leaves[i])]_vars

\* a leave stored as FLAGGED with its snapshot was approved by the warden,
\* and a later POST /ml/predict/:leaveId computes another risk score than the
\* one stored
SnapshotKeptAfterDecisionWitness ==
    /\ resp.op = "predict" /\ resp.code = 200
    /\ leaves[resp.leaveId].status = "APPROVED"
    /\ leaves[resp.leaveId].aiDecision = "FLAGGED"
    /\ leaves[resp.leaveId].riskScore # NullScore
    /\ resp.riskScore # leaves[resp.leaveId].riskScore

\* C17: the warden batch prediction (POST /ml/predict-batch) returns one
\* entry for every leave whose status is PENDING or FLAGGED, and the returned
\* entries are ordered by risk score in non-increasing order.
BatchCoversPendingAndFlagged ==
    resp.op = "predict-batch" =>
        LET data == resp.data
            open == { i \in 1..Len(leaves) :
                        leaves[i].status \in {"PENDING", "FLAGGED"} }
        IN  /\ { data[k].id : k \in 1..Len(data) } = open
            /\ Len(data) = Cardinality(open)
            /\ \A j, k \in 1..Len(data) :
                  (j < k /\ ~data[j].failed /\ ~data[k].failed)
                      => data[j].riskScore >= data[k].riskScore

-----------------------------------------------------------------------------
(* SpecApply: the leave routes under calendars that may hold an ENCOURAGED
   period *)

\* an AcademicCalendar document that lowers the risk of the days it covers
FestivalBreak ==
    [title |-> "Festival break", leavePolicy |-> "ENCOURAGED",
     riskModifier |-> -30, startDate |-> 0, endDate |-> 6, affectsHostels |-> {},
     affectsCourses |-> {}, affectsYears |-> {}, priority |-> 10,
     isActive |-> TRUE]

InitApply ==
    /\ leaves = << >>
    /\ attendance = {}
    /\ stats = [s \in Students |-> NoDoc]
    /\ events \in SUBSET (EventPool \cup {FestivalBreak})
    /\ gateLogs = << >>
    /\ auditLogs = << >>
    /\ now = 0
    /\ resp = emptyResp
    /\ call = NoDoc
    /\ ret = NoDoc

NextApply ==
    \/ \E s \in Students, ty \in {"REGULAR"}, from \in 0..MaxTime,
          d \in Durations, n \in ReasonLengths : Apply(s, ty, from, from + d, n)
    \/ \E id \in 1..MaxLeaves, a \in {"APPROVE", "REJECT"}, gp \in GatePassIds :
          Decision(id, a, gp)
    \/ Tick

\* applications and decisions under every calendar
SpecApply == InitApply /\ [][NextApply]_vars

\* C14: whenever POST /leaves/apply succeeds and the prediction was computed,
\* the created leave stores a non-null riskScore equal to the predicted risk
\* score and a non-null riskCategory, for every predicted score in 0..100
\* (0 included), and so for a student who applies for the first time with no
\* StudentStats document.
RiskStoredOnApply ==
    [][(resp'.op = "apply" /\ resp'.code = 201) =>
          LET l  == leaves'[resp'.leaveId]
              rq == requestOfLeave(l)
          IN  /\ l.riskScore # NullScore
              /\ l.riskCategory # Null
              /\ \E q \in getEventsInRange(events, l.fromDateTime, l.toDateTime) :
                    l.riskScore =
                        predictLeaveApproval(initializeStats(stats[l.studentId]),
                            q, studentInfo(l.studentId), rq,
                            studentLeaves(leaves, l.studentId), now)
                        .prediction.riskScore]_vars

-----------------------------------------------------------------------------
(* SpecRace: updateAttendanceStats, updateLeaveStats and calculateOverallRisk
   as concurrent executions, each await a step of its own.  call holds the
   executions (function, position, what it has read), ret the phase. *)

\* the concurrent executions
Procs == {"p1", "p2"}

StatsFunctions ==
    {"updateAttendanceStats", "updateLeaveStats", "calculateOverallRisk"}

idleProc == [op |-> "none", student |-> "none", pc |-> "idle", local |-> NoDoc]

InitRace ==
    /\ leaves = << >>
    /\ attendance = {}
    /\ stats = [s \in Students |-> NoDoc]
    /\ events = EventPool
    /\ gateLogs = << >>
    /\ auditLogs = << >>
    /\ now = 0
    /\ resp = emptyResp
    /\ call = [p \in Procs |-> idleProc]
    /\ ret = [phase |-> "racing", before |-> NoDoc]

RaceFrame == UNCHANGED <<leaves, attendance, events, gateLogs, auditLogs, now,
                         resp, ret>>

\* a route calls one of the three functions for student s
StartStats(p, op, s) ==
    /\ ret.phase = "racing" /\ call[p].pc = "idle"
    /\ call' = [call EXCEPT ![p] =
          [op |-> op, student |-> s, local |-> NoDoc,
           pc |-> IF op = "calculateOverallRisk" THEN "riskRead" ELSE "find"]]
    /\ UNCHANGED stats /\ RaceFrame

\* initializeStats: StudentStats.findOne({ studentId })
FindStats(p) ==
    /\ call[p].pc = "find"
    /\ call' = [call EXCEPT ![p].pc =
          IF stats[call[p].student] = NoDoc THEN "create" ELSE "read"]
    /\ UNCHANGED stats /\ RaceFrame

\* initializeStats: StudentStats.create({ studentId }); the unique index on
\* studentId makes it throw when another execution created the document
\* meanwhile, and the function ends there
CreateStats(p) ==
    /\ call[p].pc = "create"
    /\ IF stats[call[p].student] = NoDoc
       THEN /\ stats' = [stats EXCEPT ![call[p].student] = defaultStats]
            /\ call' = [call EXCEPT ![p].pc = "read"]
       ELSE /\ UNCHANGED stats
            /\ call' = [call EXCEPT ![p].pc = "done"]
    /\ RaceFrame

\* Attendance.find({ studentId }) or Leave.find({ studentId })
ReadRecords(p) ==
    /\ call[p].pc = "read"
    /\ call' = [call EXCEPT ![p].pc = "write",
                            ![p].local =
          IF call[p].op = "updateAttendanceStats"
          THEN studentAttendance(attendance, call[p].student)
          ELSE studentLeaves(leaves, call[p].student)]
    /\ UNCHANGED stats /\ RaceFrame

\* StudentStats.findOneAndUpdate with the fields computed from what was read
WriteStats(p) ==
    /\ call[p].pc = "write"
    /\ stats' = [stats EXCEPT ![call[p].student] =
          IF call[p].op = "updateAttendanceStats"
          THEN writeAttendanceStats(@, call[p].local)
          ELSE writeLeaveStats(@, call[p].local, now)]
    /\ call' = [call EXCEPT ![p].pc = "riskRead", ![p].local = NoDoc]
    /\ RaceFrame

\* calculateOverallRisk: StudentStats.findOne; if (!stats) return null
ReadStats(p) ==
    /\ call[p].pc = "riskRead"
    /\ call' = [call EXCEPT
          ![p].pc = IF stats[call[p].student] = NoDoc THEN "done" ELSE "riskWrite",
          ![p].local = stats[call[p].student]]
    /\ UNCHANGED stats /\ RaceFrame

\* calculateOverallRisk: findOneAndUpdate with the risk of the document read
WriteRisk(p) ==
    /\ call[p].pc = "riskWrite"
    /\ stats' = [stats EXCEPT ![call[p].student] =
          writeOverallRisk(@, calculateOverallRisk(call[p].local))]
    /\ call' = [call EXCEPT ![p].pc = "done", ![p].local = NoDoc]
    /\ RaceFrame

\* refreshAllStats for every student once no execution is under way
FinalRefresh ==
    /\ ret.phase = "racing"
    /\ \A p \in Procs : call[p].pc \in {"idle", "done"}
    /\ stats' = [s \in Students |->
          refreshAllStats(stats[s], studentAttendance(attendance, s),
                          studentLeaves(leaves, s), now)]
    /\ ret' = [phase |-> "refreshed", before |-> stats]
    /\ UNCHANGED <<leaves, attendance, events, gateLogs, auditLogs, now, resp,
                   call>>

NextRace ==
    \/ \E p \in Procs, op \in StatsFunctions, s \in Students : StartStats(p, op, s)
    \/ \E p \in Procs : FindStats(p)
    \/ \E p \in Procs : CreateStats(p)
    \/ \E p \in Procs : ReadRecords(p)
    \/ \E p \in Procs : WriteStats(p)
    \/ \E p \in Procs : ReadStats(p)
    \/ \E p \in Procs : WriteRisk(p)
    \/ \E s \in Students, st \in {"PRESENT", "ABSENT"} :
          ret.phase = "racing" /\ MarkAttendance(s, Day(now), st)
    \/ \E s \in Students, n \in ReasonLengths :
          ret.phase = "racing" /\ Apply(s, "REGULAR", now, now + 1, n)
    \/ FinalRefresh

SpecRace == InitRace /\ [][NextRace]_vars

\* C15: self-healing after the stats race.  After any interleaving of
\* concurrent updateAttendanceStats, updateLeaveStats and calculateOverallRisk
\* executions for the same student (each a read followed by a separate
\* write), once they have all finished, one refreshAllStats run with no
\* concurrent writer leaves a StudentStats document whose every field,
\* overallRiskScore, riskCategory and componentScores included, equals the
\* value computed from the student's current Attendance and Leave records.
RefreshSelfHeals ==
    ret.phase = "refreshed" =>
        \A s \in Students :
            /\ stats[s] = refreshAllStats(NoDoc, studentAttendance(attendance, s),
                                          studentLeaves(leaves, s), now)
            /\ LET r == calculateOverallRisk(stats[s])
               IN  /\ stats[s].overallRiskScore = r.overallRiskScore
                   /\ stats[s].riskCategory = r.riskCategory
                   /\ stats[s].componentScores = r.componentScores

\* two executions raced and left a document with a lost attendance update
\* and a stale risk, and the refresh put both right
LostUpdateHealedWitness ==
    /\ ret.phase = "refreshed"
    /\ \A p \in Procs : call[p].pc = "done"
    /\ \E s \in Students :
          /\ ret.before[s] # NoDoc
          /\ ret.before[s].attendancePercentage # stats[s].attendancePercentage
          /\ ret.before[s].overallRiskScore # stats[s].overallRiskScore

-----------------------------------------------------------------------------
(* SpecBatch: the batch loops (updateAllStudentStats, predictBatch and the
   loop of POST /ml/predict-batch), one iteration a step.  call holds the
   loop, ret what the function returned. *)

\* the most items of a batch
MaxItems == 3

BatchFunctions == {"updateAllStudentStats", "predictBatch", "predict-batch"}

\* the risk scores the predictions of a batch come to, by item
itemScores == <<30, 0, 70, 30>>

\* a loop of which only the route catches the error of an item
catchesItemErrorRouteOnly(fn) == fn = "predict-batch"

\* the body of the loop of fn is inside try { } catch { }
catchesItemError(fn) == fn \in BatchFunctions

\* n items, of which those of throws fail (refreshAllStats or
\* predictLeaveApproval rejects)
InitBatch ==
    /\ leaves = << >> /\ attendance = << >> /\ stats = << >> /\ events = {}
    /\ gateLogs = << >> /\ auditLogs = << >> /\ now = 0 /\ resp = emptyResp
    /\ ret = NoDoc
    /\ call \in { [fn |-> fn, items |-> [i \in 1..n |-> i], throws |-> th,
                   i |-> 1, attempted |-> << >>, processed |-> 0,
                   errors |-> << >>, results |-> << >>, pc |-> "loop"] :
                    fn \in BatchFunctions, n \in 0..MaxItems,
                    th \in SUBSET (1..MaxItems) }
    /\ call.throws \subseteq 1..Len(call.items)

\* one iteration: the item is attempted, and its result or its error recorded
BatchItem ==
    /\ call.pc = "loop" /\ call.i <= Len(call.items)
    /\ LET item   == call.items[call.i]
           failed == item \in call.throws
           prediction == [prediction |-> [riskScore |-> itemScores[item],
                                          decision |-> "MANUAL_REVIEW"]]
           c == [call EXCEPT !.attempted = Append(@, item), !.i = @ + 1]
       IN  call' =
             IF failed /\ ~catchesItemError(call.fn)
             THEN [c EXCEPT !.pc = "thrown"]
             ELSE IF call.fn = "updateAllStudentStats"
             THEN IF failed THEN [c EXCEPT !.errors = Append(@, item)]
                  ELSE [c EXCEPT !.processed = @ + 1]
             ELSE [c EXCEPT !.results =
                      Append(@, batchEntry(item, prediction, failed))]
    /\ UNCHANGED <<leaves, attendance, stats, events, gateLogs, auditLogs, now,
                   resp, ret>>

\* after the loop: the function returns (the route sorts first)
BatchReturn ==
    /\ call.pc = "loop" /\ call.i > Len(call.items) /\ ret = NoDoc
    /\ ret' = IF call.fn = "updateAllStudentStats"
              THEN [processed |-> call.processed, errors |-> call.errors]
              ELSE IF call.fn = "predictBatch"
              THEN [results |-> call.results]
              ELSE [results |-> sortByRisk(call.results)]
    /\ PureFrame

NextBatch == BatchItem \/ BatchReturn

SpecBatch == InitBatch /\ [][NextBatch]_vars

\* C18: batch operations isolate failures.  In updateAllStudentStats and in
\* predictBatch / POST /ml/predict-batch, for any subset of items whose
\* processing throws, every item is still attempted exactly once in order, the
\* batch returns normally, and the number of successful results plus the
\* number of recorded errors equals the number of items.
BatchIsolatesFailures ==
    /\ call.pc # "thrown"
    /\ call.attempted = SubSeq(call.items, 1, Len(call.attempted))
    /\ ret # NoDoc =>
          /\ call.attempted = call.items
          /\ IF call.fn = "updateAllStudentStats"
             THEN /\ ret.processed + Len(ret.errors) = Len(call.items)
                  /\ { ret.errors[k] : k \in 1..Len(ret.errors) } = call.throws
             ELSE /\ Len(ret.results) = Len(call.items)
                  /\ { ret.results[k].id : k \in 1..Len(ret.results) }
                        = 1..Len(call.items)
                  /\ \A k \in 1..Len(ret.results) :
                        ret.results[k].failed <=> ret.results[k].id \in call.throws

\* a batch of three whose first and last items threw has returned, with the
\* item between them processed
BatchWithFailuresWitness ==
    /\ ret # NoDoc /\ Len(call.items) = 3 /\ call.throws = {1, 3}
    /\ call.attempted = <<1, 2, 3>>
    /\ \/ call.fn = "updateAllStudentStats" /\ ret.processed = 1
       \/ call.fn # "updateAllStudentStats" /\ Len(ret.results) = 3

-----------------------------------------------------------------------------
(* MLPredictionService.detectPatterns *)

\* .limit(20)
SampleLimit == 20

\* Date.getDate() of instant t: the model's months have 30 days, day 1 of the
\* model is the first of a month
getDate(t) == ((Day(t) + 29) % 30) + 1

\* Leave.find({ studentId }).sort({ createdAt: -1 }).limit(20) on the
\* student's leaves in creation order: the newest first
mostRecent(ls) ==
    LET n == Min(Len(ls), SampleLimit)
    IN  [i \in 1..n |-> ls[Len(ls) + 1 - i]]

\* a filter that takes Saturday and Sunday starts
isWeekendExtenderSatSun(leave) == getDay(leave.fromDateTime) \in {6, 0}

\* day === 1 || day === 5
isWeekendExtender(leave) == getDay(leave.fromDateTime) \in {1, 5}

\* [...leaves].sort((a, b) => a.fromDateTime - b.fromDateTime): stable
RECURSIVE sortByFrom(_)
sortByFrom(ls) ==
    IF ls = << >> THEN << >>
    ELSE LET rest == sortByFrom(Tail(ls))
             e    == Head(ls)
             Before(x) == x.fromDateTime < e.fromDateTime
             After(x)  == ~(x.fromDateTime < e.fromDateTime)
         IN  SelectSeq(rest, Before) \o << e >> \o SelectSeq(rest, After)

\* ls: the student's Leave documents in creation order; t: Date.now()
detectPatterns(ls, t) ==
    LET sample == mostRecent(ls)
        n == Len(sample)
        weekendExtenders == Len(SelectSeq(sample, isWeekendExtender))
        onDate(d) == LET Is(l) == getDate(l.fromDateTime) = d
                     IN  Len(SelectSeq(sample, Is))
        maxCluster == CHOOSE c \in 0..n :
                         /\ \E i \in 1..n : onDate(getDate(sample[i].fromDateTime)) = c
                         /\ \A i \in 1..n : onDate(getDate(sample[i].fromDateTime)) <= c
        Recent(l) == l.createdAt >= t - 60
        Previous(l) == l.createdAt >= t - 120 /\ l.createdAt < t - 60
        recentMonthLeaves == Len(SelectSeq(sample, Recent))
        previousMonthLeaves == Len(SelectSeq(sample, Previous))
        sorted == sortByFrom(sample)
        \* gap <= 3 days
        backToBackCount ==
            Cardinality({ i \in 2..n :
                sorted[i].fromDateTime - sorted[i - 1].toDateTime <= 6 })
        detected ==
            (IF weekendExtenders >= 3 /\ 2 * weekendExtenders >= n
             THEN << [type |-> "WEEKEND_EXTENSION", severity |-> "MEDIUM"] >>
             ELSE << >>)
         \o (IF maxCluster >= 3
             THEN << [type |-> "DATE_CLUSTERING", severity |-> "LOW"] >>
             ELSE << >>)
         \o (IF recentMonthLeaves > previousMonthLeaves * 2
                /\ recentMonthLeaves >= 3
             THEN << [type |-> "INCREASING_FREQUENCY", severity |-> "MEDIUM"] >>
             ELSE << >>)
         \o (IF backToBackCount >= 2
             THEN << [type |-> "BACK_TO_BACK", severity |-> "HIGH"] >>
             ELSE << >>)
        has(sev) == \E i \in 1..Len(detected) : detected[i].severity = sev
    IN  IF n < 2 THEN [detected |-> << >>, riskLevel |-> "NONE"]
        ELSE [detected |-> detected,
              riskLevel |-> IF has("HIGH") THEN "HIGH"
                            ELSE IF has("MEDIUM") THEN "MEDIUM"
                            ELSE IF Len(detected) > 0 THEN "LOW" ELSE "NONE"]

(* SpecPatterns: detectPatterns on leave histories of up to twice a dozen
   leaves *)

\* the most leaves of one start day in a history
MaxRun == 12

\* the start instants of the histories: a Friday (day 1), a Monday (day 4), a
\* Wednesday (day 6), a Saturday (day 2)
StartInstants == {2, 8, 12, 4}

\* a history of older leaves that start at instant a followed by newer ones
\* that start at instant b, created half a day apart, the last at instant 0
historyOf(older, a, newer, b) ==
    [j \in 1..(older + newer) |->
        [fromDateTime |-> IF j <= older THEN a ELSE b,
         toDateTime   |-> (IF j <= older THEN a ELSE b) + 1,
         createdAt    |-> j - (older + newer)]]

InitPatterns ==
    /\ leaves = << >> /\ attendance = << >> /\ stats = << >> /\ events = {}
    /\ gateLogs = << >> /\ auditLogs = << >> /\ now = 0 /\ resp = emptyResp
    /\ ret = NoDoc
    /\ call \in { [fn |-> "detectPatterns",
                   leaves |-> historyOf(older, a, newer, b)] :
                    older \in 0..MaxRun, newer \in 0..MaxRun,
                    a \in StartInstants, b \in StartInstants }

PatternsStep ==
    /\ call.fn = "detectPatterns" /\ ret = NoDoc
    /\ ret' = detectPatterns(call.leaves, now)
    /\ PureFrame

NextPatterns == PatternsStep

SpecPatterns == InitPatterns /\ [][NextPatterns]_vars

\* the leaves of the sample that start on a Monday or a Friday
MondayFridayStarts(sample) ==
    Cardinality({ i \in 1..Len(sample) :
                    getDay(sample[i].fromDateTime) \in {1, 5} })

\* C19: weekend-extension pattern.  For every sample of a student's most
\* recent leaves (at most 20), detectPatterns reports WEEKEND_EXTENSION, with
\* severity MEDIUM, if and only if at least 3 leaves of the sample start on a
\* Monday or Friday and those leaves are at least 50% of the sample; so 5
\* leaves that all start on Friday or Monday are detected.
WeekendExtensionDetected ==
    ret # NoDoc =>
        LET sample == mostRecent(call.leaves)
            k == MondayFridayStarts(sample)
        IN  /\ Len(sample) <= 20
            /\ (\E i \in 1..Len(ret.detected) :
                    ret.detected[i] = [type |-> "WEEKEND_EXTENSION",
                                       severity |-> "MEDIUM"])
                  <=> (k >= 3 /\ 2 * k >= Len(sample))
            /\ \A i \in 1..Len(ret.detected) :
                  ret.detected[i].type = "WEEKEND_EXTENSION"
                      => ret.detected[i].severity = "MEDIUM"
            /\ (Len(sample) = 5 /\ k = 5) =>
                  \E i \in 1..Len(ret.detected) :
                      ret.detected[i].type = "WEEKEND_EXTENSION"

\* a history of 24 leaves, half of them Friday starts, of which the sample of
\* 20 holds 10: the pattern is reported at exactly 50% of the sample
WeekendExtensionAtHalfWitness ==
    /\ ret # NoDoc /\ Len(call.leaves) > 20
    /\ MondayFridayStarts(mostRecent(call.leaves)) = 10
    /\ MondayFridayStarts(call.leaves) > 10
    /\ \E i \in 1..Len(ret.detected) : ret.detected[i].type = "WEEKEND_EXTENSION"

-----------------------------------------------------------------------------
\* C20: BLOCKED dominates irrevocably inside the calendar analysis.  If any
\* relevant event has leavePolicy BLOCKED, analyzeLeaveDates returns canApply
\* false, calendarScore 100 and recommendation REJECT, whatever the policies
\* of the other relevant events and whatever order they are processed in.
BlockedDominates ==
    (/\ ret # NoDoc /\ call.fn = "predictLeaveApproval"
     /\ BlockedWindow(events, call.studentInfo, call.request.fromDate,
                      call.request.toDate))
        => /\ ~ret.features.calendar.canApply
           /\ ret.features.calendar.calendarScore = 100
           /\ ret.features.calendar.recommendation = "REJECT"


-----------------------------------------------------------------------------
(* The stored attendance and reliability in the prediction *)

\* C21: for every stored StudentStats, with attendancePercentage a and
\* returnReliabilityScore r anywhere in 0..100, the prediction's attendance
\* component risk is max(0, 100 - a) and its reliability component risk is
\* max(0, 100 - r).
StoredScoresDriveRisk ==
    (ret # NoDoc /\ call.fn = "predictLeaveApproval")
        => /\ ret.featureScores.attendance
                  = Max(0, 100 - call.st.attendancePercentage)
           /\ ret.featureScores.reliability
                  = Max(0, 100 - call.st.returnReliabilityScore)

-----------------------------------------------------------------------------
(* The weights calculateRiskScore applies *)

\* component risks that are all 100 (history as the rational 100/1)
everyRiskAtHundred ==
    [attendance |-> 100, reliability |-> 100, violations |-> 100,
     frequency |-> 100, history |-> Ratio(100, 1), calendarConflict |-> 100,
     duration |-> 100, leaveType |-> 100, timing |-> 100]

\* C22: the weights calculateRiskScore applies to its nine components sum to
\* 1.00: with every component risk at 100 and riskModifier 0 the unclamped
\* weighted sum is 100.
AppliedWeightsSumToOne ==
    call.fn = "calculateRiskScore"
        => LET w == weightedSum(everyRiskAtHundred)
           IN  w.num = 100 * w.den

-----------------------------------------------------------------------------
(* Calendar scope filtering *)

\* the titles of the events the analysis applied
appliedTitles(prediction) ==
    { prediction.features.calendar.overlappingEvents[i] :
        i \in 1..Len(prediction.features.calendar.overlappingEvents) }

\* C23: an active overlapping event is applied to a leave request if and only
\* if, for each of hostel block, course and year, the event's list is empty or
\* contains the student's value; a student whose value is different or absent
\* is outside a non-empty list.
ScopeFilterExact ==
    (ret # NoDoc /\ call.fn = "predictLeaveApproval")
        => \A e \in events :
              e.title \in appliedTitles(ret)
                  <=> /\ overlaps(e, call.request.fromDate, call.request.toDate)
                      /\ AppliesTo(e, call.studentInfo)

-----------------------------------------------------------------------------
(* SpecDecisionRace: two PATCH /:id/decision requests whose awaits interleave *)

\* the wardens whose requests run concurrently
Wardens == {"w1", "w2"}

idleWarden == [pc |-> "idle", id |-> 0, action |-> Null, gp |-> Null,
               leave |-> NoDoc, code |-> 0]

InitDecisionRace ==
    /\ leaves = << >>
    /\ attendance = {}
    /\ stats = [s \in Students |-> NoDoc]
    /\ events = EventPool
    /\ gateLogs = << >>
    /\ auditLogs = << >>
    /\ now = 0
    /\ resp = emptyResp
    /\ call = [w \in Wardens |-> idleWarden]
    /\ ret = NoDoc

\* the request arrives: action is APPROVE or REJECT, gp is the gate pass
\* generateGatePass would draw
StartDecision(w, id, action, gp) ==
    /\ call[w].pc = "idle" /\ id \in 1..Len(leaves)
    /\ call' = [call EXCEPT ![w] = [idleWarden EXCEPT !.pc = "find", !.id = id,
                                       !.action = action, !.gp = gp]]
    /\ UNCHANGED <<leaves, attendance, stats, events, gateLogs, auditLogs, now,
                   resp, ret>>

\* await Leave.findById and the status test on the document read
FindLeave(w) ==
    /\ call[w].pc = "find"
    /\ IF alreadyProcessed(leaves[call[w].id])
       THEN /\ call' = [call EXCEPT ![w].pc = "done", ![w].code = 400]
            /\ Respond("decision", 400, call[w].id, Null)
       ELSE /\ call' = [call EXCEPT
                  ![w].leave = decide(leaves[call[w].id], call[w].action,
                                      call[w].gp),
                  ![w].pc = IF call[w].action = "APPROVE" THEN "mark" ELSE "save"]
            /\ UNCHANGED resp
    /\ UNCHANGED <<leaves, attendance, stats, events, gateLogs, auditLogs, now,
                   ret>>

\* the awaited Attendance upserts of an approval
MarkLeaveDays(w) ==
    /\ call[w].pc = "mark"
    /\ attendance' = markOnLeave(attendance, call[w].leave.studentId,
                                 call[w].leave.fromDateTime,
                                 call[w].leave.toDateTime)
    /\ call' = [call EXCEPT ![w].pc = "save"]
    /\ UNCHANGED <<leaves, stats, events, gateLogs, auditLogs, now, resp, ret>>

\* await leave.save(): the update sets the paths the request modified on its
\* copy (status, approvedBy, and gatePassId when it approved) and no other
SaveLeave(w) ==
    /\ call[w].pc = "save"
    /\ IF call[w].action = "APPROVE"
            => gatePassUnique(leaves, call[w].id, call[w].gp)
       THEN /\ leaves' = [leaves EXCEPT ![call[w].id] =
                  [@ EXCEPT !.status = call[w].leave.status,
                            !.approvedBy = call[w].leave.approvedBy,
                            !.gatePassId = IF call[w].action = "APPROVE"
                                           THEN call[w].leave.gatePassId ELSE @]]
            /\ call' = [call EXCEPT ![w].pc = "stats"]
            /\ UNCHANGED resp
       ELSE /\ UNCHANGED leaves
            /\ call' = [call EXCEPT ![w].pc = "done", ![w].code = 500]
            /\ Respond("decision", 500, call[w].id, call[w].action)
    /\ UNCHANGED <<attendance, stats, events, gateLogs, auditLogs, now, ret>>

\* updateLeaveStats, AuditLog.create and the response
FinishDecision(w) ==
    /\ call[w].pc = "stats"
    /\ LET s == call[w].leave.studentId
       IN  stats' = [stats EXCEPT ![s] =
                 updateLeaveStats(stats[s], studentLeaves(leaves, s), now)]
    /\ auditLogs' = Append(auditLogs,
                           [action |-> call[w].action, targetId |-> call[w].id])
    /\ call' = [call EXCEPT ![w].pc = "done", ![w].code = 200]
    /\ Respond("decision", 200, call[w].id, call[w].action)
    /\ UNCHANGED <<leaves, attendance, events, gateLogs, now, ret>>

NextDecisionRace ==
    \/ \E s \in Students, from \in {0, 3}, n \in ReasonLengths :
          Apply(s, "REGULAR", from, from + 1, n)
    \/ \E w \in Wardens, id \in 1..MaxLeaves, action \in {"APPROVE", "REJECT"},
          gp \in GatePassIds : StartDecision(w, id, action, gp)
    \/ \E w \in Wardens : FindLeave(w)
    \/ \E w \in Wardens : MarkLeaveDays(w)
    \/ \E w \in Wardens : SaveLeave(w)
    \/ \E w \in Wardens : FinishDecision(w)

SpecDecisionRace == InitDecisionRace /\ [][NextDecisionRace]_vars

\* C24: at most one warden decision takes effect per leave under concurrency.
\* Of two concurrent decision requests on the same PENDING or FLAGGED leave,
\* exactly one changes the leave (200) and the other is answered 'Leave is
\* already processed' (400); and no leave with status REJECTED carries a
\* gatePassId.
OneDecisionTakesEffect ==
    /\ \A v, w \in Wardens :
          (v # w /\ call[v].pc = "done" /\ call[w].pc = "done"
                 /\ call[v].id = call[w].id /\ call[v].code = 200)
              => call[w].code = 400
    /\ \A i \in 1..Len(leaves) :
          leaves[i].status = "REJECTED" => leaves[i].gatePassId = Null

-----------------------------------------------------------------------------
(* SpecExitRace: two POST /gate/exit requests whose awaits interleave *)

\* the guards whose scans run concurrently
Guards == {"g1", "g2"}

idleGuard == [pc |-> "idle", gp |-> Null, id |-> 0, code |-> 0]

InitExitRace ==
    /\ leaves = << >>
    /\ attendance = {}
    /\ stats = [s \in Students |-> NoDoc]
    /\ events = EventPool
    /\ gateLogs = << >>
    /\ auditLogs = << >>
    /\ now = 0
    /\ resp = emptyResp
    /\ call = [g \in Guards |-> idleGuard]
    /\ ret = NoDoc

\* the scan arrives with a gate pass id
StartExit(g, gp) ==
    /\ call[g].pc = "idle"
    /\ call' = [call EXCEPT ![g] = [idleGuard EXCEPT !.pc = "find", !.gp = gp]]
    /\ UNCHANGED <<leaves, attendance, stats, events, gateLogs, auditLogs, now,
                   resp, ret>>

\* await Leave.findOne({ gatePassId }) and the three tests on the document read
FindPass(g) ==
    LET id == leaveOfGatePass(leaves, call[g].gp) IN
    /\ call[g].pc = "find"
    /\ IF id = 0
       THEN /\ call' = [call EXCEPT ![g].pc = "done", ![g].code = 404]
            /\ Respond("exit", 404, 0, Null)
       ELSE IF \/ leaves[id].status # "APPROVED"
               \/ isOut(leaves[id])
               \/ now < leaves[id].fromDateTime
       THEN /\ call' = [call EXCEPT ![g].pc = "done", ![g].code = 400,
                                    ![g].id = id]
            /\ Respond("exit", 400, id, Null)
       ELSE /\ call' = [call EXCEPT ![g].pc = "log", ![g].id = id]
            /\ UNCHANGED resp
    /\ UNCHANGED <<leaves, attendance, stats, events, gateLogs, auditLogs, now,
                   ret>>

\* await GateLog.create({ ..., action: 'EXIT' })
CreateExitLog(g) ==
    /\ call[g].pc = "log"
    /\ Len(gateLogs) < MaxGateLogs
    /\ gateLogs' = Append(gateLogs, [leaveId |-> call[g].id, action |-> "EXIT"])
    /\ call' = [call EXCEPT ![g].pc = "save"]
    /\ UNCHANGED <<leaves, attendance, stats, events, auditLogs, now, resp, ret>>

\* leave.currentStatus = 'OUT'; await leave.save(); the response
SaveOut(g) ==
    /\ call[g].pc = "save"
    /\ leaves' = [leaves EXCEPT ![call[g].id].currentStatus = "OUT"]
    /\ call' = [call EXCEPT ![g].pc = "done", ![g].code = 200]
    /\ Respond("exit", 200, call[g].id, Null)
    /\ UNCHANGED <<attendance, stats, events, gateLogs, auditLogs, now, ret>>

NextExitRace ==
    \/ \E s \in Students, d \in Durations, n \in ReasonLengths :
          Apply(s, "REGULAR", 0, d, n)
    \/ \E id \in 1..MaxLeaves, a \in {"APPROVE", "REJECT"}, gp \in GatePassIds :
          Decision(id, a, gp)
    \/ \E g \in Guards, gp \in GatePassIds : StartExit(g, gp)
    \/ \E g \in Guards : FindPass(g)
    \/ \E g \in Guards : CreateExitLog(g)
    \/ \E g \in Guards : SaveOut(g)

SpecExitRace == InitExitRace /\ [][NextExitRace]_vars

\* C25: duplicate exits are prevented under concurrency.  Of two concurrent
\* exit scans carrying the same gatePassId for a leave that is IN, exactly one
\* creates an EXIT GateLog and the other is rejected with 'Student has already
\* exited' (400): no leave has two EXIT logs, and two finished scans of one
\* leave never both answer 200.
DuplicateExitPrevented ==
    /\ \A i \in 1..Len(leaves) : Len(logsOfLeave(gateLogs, i)) <= 1
    /\ \A g, h \in Guards :
          (g # h /\ call[g].pc = "done" /\ call[h].pc = "done"
                 /\ call[g].id = call[h].id /\ call[g].code = 200)
              => call[h].code = 400

-----------------------------------------------------------------------------
(* The gate pass of an automatic approval *)

\* C26: every leave that holds a gate pass on any approval path can be used at
\* the gate.  An exit scan with the gatePassId of a leave whose status is
\* APPROVED or AUTO_APPROVED, whose fromDateTime has passed and whose
\* currentStatus is IN succeeds: it creates an EXIT GateLog and sets
\* currentStatus to OUT.
GatePassUsable ==
    [][\A gp \in GatePassIds :
          LET id == leaveOfGatePass(leaves, gp)
          IN  (/\ GateExit(gp) /\ id # 0
               /\ leaves[id].status \in {"APPROVED", "AUTO_APPROVED"}
               /\ now >= leaves[id].fromDateTime
               /\ leaves[id].currentStatus = "IN")
                  => /\ resp'.code = 200
                     /\ leaves'[id].currentStatus = "OUT"
                     /\ gateLogs' = Append(gateLogs,
                                           [leaveId |-> id, action |-> "EXIT"])]_vars

-----------------------------------------------------------------------------
(* SpecOverstay: the gate and the lists of students who are out *)

\* the latest instant of the clock, late enough for a leave to be overstayed
MaxLateTime == 3

\* GET /api/gate/out: Leave.find({ status: 'APPROVED', currentStatus: 'OUT' })
outList(ls) ==
    { i \in 1..Len(ls) : ls[i].status = "APPROVED" /\ ls[i].currentStatus = "OUT" }

\* GET /api/leaves/overstay: the same filter with toDateTime: { $lt: now }
overstayList(ls, t) ==
    { i \in 1..Len(ls) : /\ ls[i].status = "APPROVED"
                         /\ ls[i].currentStatus = "OUT"
                         /\ ls[i].toDateTime < t }

NextOverstay ==
    \/ \E s \in Students, from \in {0, 1}, n \in ReasonLengths :
          Apply(s, "REGULAR", from, from + 1, n)
    \/ \E id \in 1..MaxLeaves, a \in {"APPROVE", "REJECT"}, gp \in GatePassIds :
          Decision(id, a, gp)
    \/ \E gp \in GatePassIds : GateExit(gp)
    \/ \E gp \in GatePassIds : GateEntry(gp)
    \/ \E id \in 1..MaxLeaves : ForceReturn(id)
    \/ TickTo(MaxLateTime)

SpecOverstay == Init /\ [][NextOverstay]_vars

\* C27: in every state reachable by sequential apply, decision, exit, entry
\* and force-return operations, a leave with currentStatus OUT has status
\* APPROVED and a non-null gatePassId; hence the out-list contains every leave
\* that is OUT and the overstay list every leave that is OUT with toDateTime in
\* the past.
OutLeavesAreListed ==
    \A i \in 1..Len(leaves) :
        leaves[i].currentStatus = "OUT"
            => /\ leaves[i].status = "APPROVED"
               /\ leaves[i].gatePassId # Null
               /\ i \in outList(leaves)
               /\ leaves[i].toDateTime < now => i \in overstayList(leaves, now)

\* a student is out past the end of the leave and a second leave of the
\* student, approved automatically, is in
OverstayedLeaveListedWitness ==
    /\ \E i \in 1..Len(leaves) :
          /\ leaves[i].currentStatus = "OUT" /\ leaves[i].toDateTime < now
          /\ i \in overstayList(leaves, now)
    /\ \E j \in 1..Len(leaves) : leaves[j].status = "AUTO_APPROVED"

-----------------------------------------------------------------------------
(* The confidence gate for a student without history *)

\* no attendance records, no leave history, no return history
noHistory(st) ==
    st.totalDays = 0 /\ st.totalLeavesApplied = 0
                     /\ st.onTimeReturns + st.lateReturns = 0

\* C28: a request from a student with no history at all is never
\* auto-approved: its confidence is below the 0.6 auto-decision threshold, so
\* a risk score <= 20 leads to MANUAL_REVIEW with the 'insufficient data'
\* attention point rather than AUTO_APPROVE.
NoHistoryNeverAutoApproved ==
    (ret # NoDoc /\ call.fn = "predictLeaveApproval" /\ noHistory(call.st))
        => /\ ret.prediction.confidence < THRESHOLDS.minConfidence
           /\ ret.prediction.decision # "AUTO_APPROVE"
           /\ (ret.prediction.riskScore <= THRESHOLDS.autoApprove
               /\ ret.features.calendar.canApply)
                  => ret.prediction.decision = "MANUAL_REVIEW"

-----------------------------------------------------------------------------
(* The return outcome of a leave *)

\* C29: a late return is reflected in the student's reliability.  After a
\* gate entry or force-return logged after the leave's toDateTime, the next
\* updateLeaveStats for the student yields lateReturns >= 1 and
\* returnReliabilityScore < 100; after an on-time entry it yields
\* onTimeReturns >= 1.
ReturnReflectedInReliability ==
    [][\A i \in 1..Len(leaves) :
          (/\ resp'.op \in {"entry", "force-return"} /\ resp'.code = 200
           /\ resp'.leaveId = i /\ Len(gateLogs') = Len(gateLogs) + 1)
              => LET s  == leaves[i].studentId
                     st == updateLeaveStats(stats'[s], studentLeaves(leaves', s),
                                            now')
                 IN  IF now > leaves[i].toDateTime
                     THEN st.lateReturns >= 1 /\ st.returnReliabilityScore < 100
                     ELSE st.onTimeReturns >= 1]_vars

-----------------------------------------------------------------------------
(* The stored statistics after a decision *)

\* C30: after a warden decision request completes, the student's stored
\* StudentStats equals the snapshot a full recomputation from the student's
\* current Attendance and Leave records would produce, totalDays,
\* attendancePercentage and overallRiskScore included.
StatsFreshAfterDecision ==
    (resp.op = "decision" /\ resp.code = 200)
        => LET s == leaves[resp.leaveId].studentId
           IN  stats[s] = refreshAllStats(stats[s], studentAttendance(attendance, s),
                                          studentLeaves(leaves, s), now)
====
